---- MODULE Spec2Model ----
(***************************************************************************)
(* Model of the Linkwarden Alfred workflow core:                            *)
(*   - CacheManager (src/cache_manager.py): file-per-key TTL cache,         *)
(*   - LinkwardenAPI (src/linkwarden_api.py): request layer, multi-filter   *)
(*     search and the two-step link creation,                               *)
(*   - the search and save commands that drive them.                        *)
(* The specifications share the variables:                                  *)
(*   Spec        the cache under get / set / delete and a clock,            *)
(*   StoreSpec   the cache over any directory content, with clear and       *)
(*               cleanup_expired,                                           *)
(*   ListSpec    get_collections / get_tags / create_collection,            *)
(*   SaveSpec    one run of the save action (create_link),                  *)
(*   SearchSpec  one run of the search command (search_links),              *)
(*   TtlSpec     __init__ reading the ttl overrides,                        *)
(*   RequestSpec the requests of one API object (_make_request),            *)
(*   ProcSpec    invocations one after the other, each its own process,     *)
(*   RaceSpec    a set racing a get or a cleanup_expired, step by step,     *)
(*   ListRaceSpec get_collections and create_collection of several          *)
(*               processes, step by step,                                   *)
(*   OrderSpec   search_links under two iteration orders of the same ids,   *)
(*   QuerySpec   the search command from the parsed query on.               *)
(***************************************************************************)
EXTENDS Integers, Sequences, FiniteSets, TLC

VARIABLES
    files,      \* cache directory: file name (safe key) -> file content
    stats,      \* CacheManager.stats of the running process
    now,        \* time.time()
    nops,       \* number of cache operations performed (bounds the run)
    lastOp,     \* the cache operation that completed last
    save,       \* the state of one create_link run
    search,     \* the state of one search_links run
    api,        \* the remote's lists and the last listing / creating call
    procs       \* the processes running side by side: name -> local state

vars == <<files, stats, now, nops, lastOp, save, search, api, procs>>

(***************************************************************************)
(* Bounds of the model.                                                     *)
(***************************************************************************)
MaxTime == 2
MaxOps == 2
MaxLimit == 2

(***************************************************************************)
(* CacheManager: keys, values and file contents.                            *)
(***************************************************************************)
\* A logical key is a sequence of character runs. The API's keys are
\* f"{endpoint}_{api_url}_{hash(api_token) % 10000}" (get_collections, get_tags);
\* ":" and "/" are among the characters _get_cache_file drops.
ApiUrl == <<"https", ":", "/", "/", "host">>
TokenHash == <<"h7">>

\* hash(api_token) % 10000 as one process computes it: str hashes are salted
\* per interpreter process, so the same token hashes to any of the residues.
TokenHashes == {<<"h7">>, <<"h3">>}

CacheKeyIn(endpoint, token_hash) ==
    <<endpoint, "_">> \o ApiUrl \o <<"_">> \o token_hash

CacheKey(endpoint) == CacheKeyIn(endpoint, TokenHash)

\* The tags key of an instance whose URL differs only in dropped characters.
AliasKey == <<"tags", "_", "https", "host", "_", "h7">>

SafeChars == {"collections", "tags", "https", "host", "h7", "h3", "_", "-", "."}
Keys == {CacheKey("tags"), AliasKey, CacheKey("collections")}

IsSafeChar(c) == c \in SafeChars

\* _get_cache_file: keep alphanumerics and _ - . ; the result names the file.
SafeKeyIdentity(key) == key

SafeKey(key) == SelectSeq(key, IsSafeChar)

FileNames == {SafeKey(k) : k \in Keys}

\* JSON values handed to set; None is what get returns on a miss.
JsonValues == {"v1", "v2"}
None == "None"

\* ttl_seconds handed to set, and the time set spends between its two reads
\* of the clock.
TTLs == {0 - 1, 1}
SetDelays == {0, 1}

\* File contents. kind: "absent" (no file), "entry" (the JSON object set
\* wrote), "garbage" (text json.load rejects, e.g. a truncated write, or a
\* JSON value on which the expiry test raises), "no_expires_at" (well-formed
\* JSON without the key expires_at), "no_value" (an object with expires_at
\* but without the key value).
\* ttl is history only (the ttl_seconds of the set that wrote the entry); no
\* operation reads it.
NoFile == [kind |-> "absent", value |-> None, expires_at |-> 0, created_at |-> 0,
           ttl |-> 0]
Garbage == [kind |-> "garbage", value |-> None, expires_at |-> 0, created_at |-> 0,
            ttl |-> 0]

\* A file under a set that has not closed it: Empty after open(..., 'w')
\* truncated it, Partial once json.dump has flushed a part of the text. The
\* text is one JSON object, so a proper prefix of it is not JSON.
Empty == [kind |-> "empty", value |-> None, expires_at |-> 0, created_at |-> 0,
          ttl |-> 0]
Partial == [kind |-> "partial", value |-> None, expires_at |-> 0, created_at |-> 0,
            ttl |-> 0]

\* cache_data of set: two reads of time.time(), t1 then t2.
CacheDataStoresTtl(value, ttl_seconds, t1, t2) ==
    [kind |-> "entry", value |-> value, expires_at |-> ttl_seconds,
     created_at |-> t2, ttl |-> ttl_seconds]

CacheData(value, ttl_seconds, t1, t2) ==
    [kind |-> "entry", value |-> value, expires_at |-> t1 + ttl_seconds,
     created_at |-> t2, ttl |-> ttl_seconds]

\* Well-formed files this version of set does not write.
NoExpiresAt == [kind |-> "no_expires_at", value |-> "v1", expires_at |-> 0,
                created_at |-> 0, ttl |-> 0]
NoValue(expires_at) == [kind |-> "no_value", value |-> None, expires_at |-> expires_at,
                        created_at |-> 0, ttl |-> 0]

\* json.load succeeds on complete JSON text.
JsonLoadsAcceptsPartial(file) ==
    file.kind \in {"entry", "no_expires_at", "no_value", "partial"}

JsonLoads(file) == file.kind \in {"entry", "no_expires_at", "no_value"}

\* _is_expired: true without the key expires_at, else time.time() > expires_at.
IsExpiredNever(cache_data, t) == FALSE

IsExpired(cache_data, t) ==
    cache_data.kind = "no_expires_at" \/ t > cache_data.expires_at

ZeroStats == [hits |-> 0, misses |-> 0, sets |-> 0, expired |-> 0, errors |-> 0]

\* No process runs beside the one whose calls the other variables follow.
NoProcs == <<>>

Inc(st, counters) ==
    [c \in DOMAIN st |-> IF c \in counters THEN st[c] + 1 ELSE st[c]]

\* The counters get increments when there is no file, and in its handler.
AbsentCountersWithErrors == {"errors", "misses"}

AbsentCounters == {"misses"}

ErrorCountersMissOnly == {"misses"}

ErrorCounters == {"errors", "misses"}

\* "except Exception" in get: what the try block can raise (JSONDecodeError
\* from json.load, KeyError from cache_data['value'], FileNotFoundError from
\* open) is an Exception, so it is handled.
Exceptions == {"JSONDecodeError", "KeyError", "FileNotFoundError"}

GetHandlesOnlyOSError(exc) == exc = "FileNotFoundError"

GetHandles(exc) == exc \in Exceptions

\* The handler of get: a miss that counts an error; an exception it does not
\* handle reaches the caller (raised).
GetFailed(f, st, exc) ==
    IF GetHandles(exc)
    THEN [files |-> f, stats |-> Inc(st, ErrorCounters), value |-> None, hit |-> FALSE,
          raised |-> "none"]
    ELSE [files |-> f, stats |-> st, value |-> None, hit |-> FALSE, raised |-> exc]

\* get at time t: the new directory, the new counters and the returned pair.
CacheGetExtendsExpiry(f, st, t, key) ==
    LET name == SafeKey(key)
        file == f[name]
    IN  IF file.kind = "entry" /\ ~IsExpired(file, t)
        THEN [files |-> [f EXCEPT ![name].expires_at = t + file.ttl],
              stats |-> Inc(st, {"hits"}), value |-> file.value,
              hit |-> TRUE, raised |-> "none"]
        ELSE [files |-> [f EXCEPT ![name] = NoFile],
              stats |-> Inc(st, {"misses"}), value |-> None,
              hit |-> FALSE, raised |-> "none"]

CacheGet(f, st, t, key) ==
    LET name == SafeKey(key)
        file == f[name]
    IN  IF file.kind = "absent"
        THEN [files |-> f, stats |-> Inc(st, AbsentCounters), value |-> None,
              hit |-> FALSE, raised |-> "none"]
        ELSE IF ~JsonLoads(file)
        THEN GetFailed(f, st, "JSONDecodeError")
        ELSE IF IsExpired(file, t)
        THEN [files |-> [f EXCEPT ![name] = NoFile],
              stats |-> Inc(st, {"expired", "misses"}), value |-> None, hit |-> FALSE,
              raised |-> "none"]
        ELSE IF file.kind = "no_value"
        THEN GetFailed(f, Inc(st, {"hits"}), "KeyError")
        ELSE [files |-> f, stats |-> Inc(st, {"hits"}), value |-> file.value,
              hit |-> TRUE, raised |-> "none"]

\* get when another process removes the file between exists() and open():
\* open raises FileNotFoundError.
CacheGetVanished(f, st, t, key) ==
    GetFailed([f EXCEPT ![SafeKey(key)] = NoFile], st, "FileNotFoundError")

\* Outcomes of the write in set: "ok"; "open_failed" (open raises, the file is
\* untouched); "write_failed" (open truncated the file, the dump raised).
IoOutcomes == {"ok", "open_failed", "write_failed"}

\* set: t1, t2 are the two clock reads, io the outcome of the file write.
CacheSetKeepsExpiry(f, st, t1, t2, key, value, ttl_seconds, io) ==
    LET name == SafeKey(key)
        new == CacheData(value, ttl_seconds, t1, t2)
    IN  [files |-> [f EXCEPT ![name] = IF f[name].kind = "entry"
                                       THEN [new EXCEPT !.expires_at = f[name].expires_at]
                                       ELSE new],
         stats |-> Inc(st, {"sets"}), ok |-> TRUE]

CacheSet(f, st, t1, t2, key, value, ttl_seconds, io) ==
    LET name == SafeKey(key)
    IN  IF io = "ok"
        THEN [files |-> [f EXCEPT ![name] = CacheData(value, ttl_seconds, t1, t2)],
              stats |-> Inc(st, {"sets"}), ok |-> TRUE]
        ELSE IF io = "write_failed"
        THEN [files |-> [f EXCEPT ![name] = Garbage],
              stats |-> Inc(st, {"errors"}), ok |-> FALSE]
        ELSE [files |-> f, stats |-> Inc(st, {"errors"}), ok |-> FALSE]

\* delete. unlink of a file that exists succeeds in the process's own cache
\* directory; the except branch needs another process to remove the file
\* between exists() and unlink().
CacheDeleteAlwaysTrue(f, st, key) ==
    [files |-> [f EXCEPT ![SafeKey(key)] = NoFile], stats |-> st, existed |-> TRUE]

CacheDeleteKeepsFile(f, st, key) ==
    [files |-> f, stats |-> st, existed |-> f[SafeKey(key)].kind # "absent"]

CacheDelete(f, st, key) ==
    LET name == SafeKey(key)
    IN  IF f[name].kind # "absent"
        THEN [files |-> [f EXCEPT ![name] = NoFile], stats |-> st, existed |-> TRUE]
        ELSE [files |-> f, stats |-> st, existed |-> FALSE]

\* The files glob("*.json") lists.
Stored(f) == {name \in DOMAIN f : f[name].kind # "absent"}

\* clear: unlink every listed file, counting the unlinks that did not raise.
\* An unlink of a listed file raises when the file is gone by then (another
\* process removed it); gone is the set of those files.
CacheClearCountsListed(f, st, gone) ==
    [files |-> [name \in DOMAIN f |-> NoFile], stats |-> st,
     deleted_count |-> Cardinality(Stored(f))]

CacheClear(f, st, gone) ==
    [files |-> [name \in DOMAIN f |-> NoFile], stats |-> st,
     deleted_count |-> Cardinality(Stored(f) \ gone)]

\* cleanup_expired at time t: a listed file is removed when the expiry test
\* holds or when reading it raises; the count is added to stats.expired.
RemovableKeepsUnreadable(file, t) == JsonLoads(file) /\ IsExpired(file, t)

Removable(file, t) == ~JsonLoads(file) \/ IsExpired(file, t)

CacheCleanupExpired(f, st, t) ==
    LET removed == {name \in Stored(f) : Removable(f[name], t)}
    IN  [files |-> [name \in DOMAIN f |-> IF name \in removed THEN NoFile ELSE f[name]],
         stats |-> [st EXCEPT !.expired = @ + Cardinality(removed)],
         expired_count |-> Cardinality(removed)]

\* get_stats: a copy of the counters with total_requests and hit_rate; the
\* quotient hits / total_requests is kept as the pair <<hits, total_requests>>,
\* 0.0 as <<0, 1>>.
CacheGetStats(st) ==
    LET total_requests == st.hits + st.misses
    IN  [hits |-> st.hits, misses |-> st.misses, sets |-> st.sets,
         expired |-> st.expired, errors |-> st.errors,
         hit_rate |-> IF total_requests > 0 THEN <<st.hits, total_requests>>
                      ELSE <<0, 1>>,
         total_requests |-> total_requests]

\* reset_stats: every counter back to 0.
CacheResetStats(st) == ZeroStats

\* What is remembered of the operation before the last one: before a get, a
\* set of the same key (with its arguments, result and first clock read) or
\* a clear; before a delete, a delete of the same key; before a clear, a clear.
NoPrev == [op |-> "none", key |-> <<>>, set |-> FALSE, value |-> None, ttl |-> 0,
           ok |-> FALSE, at |-> 0]

\* The last operation: its arguments, its result (ok, value, count, raised), the
\* clock, directory and counters it started from (at, files0, stats0; pre is
\* the file of its key in files0).
NoOp == [op |-> "none", key |-> <<>>, value |-> None, ttl |-> 0, ok |-> FALSE,
         raised |-> "none", count |-> 0, gone |-> {}, at |-> 0, pre |-> NoFile,
         files0 |-> <<>>, stats0 |-> ZeroStats, report |-> CacheGetStats(ZeroStats),
         prev |-> NoPrev]

Before(last) == [NoPrev EXCEPT !.op = last.op, !.key = last.key, !.ok = last.ok]


\* What an earlier invocation may have left in a file of the cache directory.
LeftBehind == {NoFile, CacheData("v1", 1, 0, 0)}

(***************************************************************************)
(* LinkwardenAPI: the remote's entities and the request layer.              *)
(***************************************************************************)
\* str.lower() on the names of the model.
Lower(name) ==
    CASE name = "Work" -> "work"
      [] name = "WORK" -> "work"
      [] name = "Unorganized" -> "unorganized"
      [] name = "News" -> "news"
      [] name = "NEWS" -> "news"
      [] name = "Fun" -> "fun"
      [] OTHER -> name

\* Collections and tags as the remote lists them. Remote ids are positive
\* database keys; id 0 in a tag object stands for "no id key" (a name-only
\* placeholder).
Unorganized == [null |-> FALSE, id |-> 1, name |-> "Unorganized", ownerId |-> 7]
Work == [null |-> FALSE, id |-> 2, name |-> "Work", ownerId |-> 7]
NullCollection == [null |-> TRUE, id |-> 0, name |-> "", ownerId |-> 0]
\* The collection a successful create-collection call adds, under the requested name.
NewCollection(name) == [null |-> FALSE, id |-> 3, name |-> name, ownerId |-> 7]

TagNews == [id |-> 1, name |-> "News"]
NameOnlyTag(tag_name) == [id |-> 0, name |-> tag_name]

\* cache_ttl_collections, cache_ttl_tags, cache_ttl_search (defaults of __init__).
CacheTtlCollections == 600
CacheTtlTags == 600
CacheTtlSearch == 120

\* The text of an environment variable is a sequence of characters; Unset is
\* os.environ.get returning None.
Unset == <<"unset">>
Digits == {"0", "1", "2", "3", "4", "5", "6", "7", "8", "9"}

DigitValue(c) ==
    CASE c = "0" -> 0 [] c = "1" -> 1 [] c = "2" -> 2 [] c = "3" -> 3 [] c = "4" -> 4
      [] c = "5" -> 5 [] c = "6" -> 6 [] c = "7" -> 7 [] c = "8" -> 8 [] c = "9" -> 9

\* str.strip() as int() applies it: whitespace off both ends.
RECURSIVE StripLeft(_)
StripLeft(text) ==
    IF text # <<>> /\ Head(text) = " " THEN StripLeft(Tail(text)) ELSE text

RECURSIVE StripRight(_)
StripRight(text) ==
    IF text # <<>> /\ text[Len(text)] = " "
    THEN StripRight(SubSeq(text, 1, Len(text) - 1)) ELSE text

\* The value of a run of decimal digits.
RECURSIVE DigitsValue(_)
DigitsValue(digits) ==
    IF digits = <<>> THEN 0
    ELSE 10 * DigitsValue(SubSeq(digits, 1, Len(digits) - 1))
           + DigitValue(digits[Len(digits)])

\* int(text): optional surrounding whitespace, an optional sign, then decimal
\* digits in which single underscores may separate digits; anything else
\* raises ValueError (ok = FALSE).
ParseInt(text) ==
    LET stripped == StripRight(StripLeft(text))
        signed == stripped # <<>> /\ Head(stripped) \in {"+", "-"}
        body == IF signed THEN Tail(stripped) ELSE stripped
        IsDigit(c) == c \in Digits
        digits == SelectSeq(body, IsDigit)
        well_formed ==
            /\ body # <<>>
            /\ \A i \in DOMAIN body : body[i] \in Digits \cup {"_"}
            /\ \A i \in DOMAIN body :
                  body[i] = "_" => /\ i > 1 /\ i < Len(body)
                                   /\ body[i - 1] \in Digits /\ body[i + 1] \in Digits
        magnitude == DigitsValue(digits)
    IN  IF ~well_formed THEN [ok |-> FALSE, n |-> 0]
        ELSE [ok |-> TRUE,
              n |-> IF signed /\ Head(stripped) = "-" THEN 0 - magnitude ELSE magnitude]

\* _get_ttl_from_env(env_var, default), value being the variable's text.
GetTtlFromEnvUnclamped(value, default) ==
    IF value = Unset THEN default
    ELSE IF ~ParseInt(value).ok THEN default ELSE ParseInt(value).n

GetTtlFromEnv(value, default) ==
    IF value = Unset THEN default
    ELSE LET ttl == ParseInt(value)
         IN  IF ~ttl.ok THEN default
             ELSE IF ttl.n < 30 THEN 30
             ELSE IF ttl.n > 86400 THEN 86400
             ELSE ttl.n

\* _make_request on a failed call (any HTTP, URL or decoding error): with
\* output_alfred_format it prints the error item and calls sys.exit(1), which
\* no "except Exception" catches; otherwise it raises Exception.
MakeRequestFailureAlwaysExits(output_alfred_format) == "exit"

MakeRequestFailure(output_alfred_format) ==
    IF output_alfred_format THEN "exit" ELSE "raise"

\* get_collections / get_tags: cache lookup, then one GET when it misses; a
\* non-empty list is cached. outcome is the remote's answer ("ok" or
\* "fail"), remote the list it returns, io the outcome of the cache write.
\* called tells whether the GET was issued; error is "none", "raise" or "exit".
GetCachedIgnoresHit(f, st, t, key, ttl, alfred, outcome, remote, io) ==
    LET g == CacheGet(f, st, t, key)
    IN  [files |-> g.files, stats |-> g.stats, list |-> remote,
         called |-> TRUE, error |-> "none"]

GetCachedStoresEmpty(f, st, t, key, ttl, alfred, outcome, remote, io) ==
    LET g == CacheGet(f, st, t, key)
    IN  IF g.hit
        THEN [files |-> g.files, stats |-> g.stats, list |-> g.value,
              called |-> FALSE, error |-> "none"]
        ELSE IF outcome = "fail"
        THEN [files |-> g.files, stats |-> g.stats, list |-> <<>>,
              called |-> TRUE, error |-> MakeRequestFailure(alfred)]
        ELSE LET w == CacheSet(g.files, g.stats, t, t, key, remote, ttl, io)
             IN  [files |-> w.files, stats |-> w.stats, list |-> remote,
                  called |-> TRUE, error |-> "none"]

GetCached(f, st, t, key, ttl, alfred, outcome, remote, io) ==
    LET g == CacheGet(f, st, t, key)
    IN  IF g.hit
        THEN [files |-> g.files, stats |-> g.stats, list |-> g.value,
              called |-> FALSE, error |-> "none"]
        ELSE IF outcome = "fail"
        THEN [files |-> g.files, stats |-> g.stats, list |-> <<>>,
              called |-> TRUE, error |-> MakeRequestFailure(alfred)]
        ELSE IF remote # <<>>
        THEN LET w == CacheSet(g.files, g.stats, t, t, key, remote, ttl, io)
             IN  [files |-> w.files, stats |-> w.stats, list |-> remote,
                  called |-> TRUE, error |-> "none"]
        ELSE [files |-> g.files, stats |-> g.stats, list |-> remote,
              called |-> TRUE, error |-> "none"]

\* The last call of get_collections, get_tags or create_collection on one
\* LinkwardenAPI object: the file it found, the GETs and POSTs it issued, the
\* list it returned, how it ended; prev is the call before it.
NoCall == [op |-> "none", key |-> <<>>, at |-> 0, pre |-> NoFile, calls |-> 0,
           list |-> <<>>, error |-> "none"]

\* env is the text of LW_CACHE_COLLECTIONS_TTL, LW_CACHE_TAGS_TTL and
\* LW_CACHE_SEARCH_TTL; cache_ttl the three ttls __init__ derives from it
\* (configured tells that __init__ has run).
NoEnv == [collections |-> Unset, tags |-> Unset, search |-> Unset]

CacheTtl(env) ==
    [collections |-> GetTtlFromEnv(env.collections, CacheTtlCollections),
     tags |-> GetTtlFromEnv(env.tags, CacheTtlTags),
     search |-> GetTtlFromEnv(env.search, CacheTtlSearch)]

\* How one call of urlopen and the decoding of its answer may end: a decoded
\* 2xx answer, an HTTPError by status, a URLError (no connection, or a timeout
\* while connecting), a timeout while reading the body, a body that is not
\* UTF-8 JSON.
Outcomes ==
    {"ok", "http_401", "http_404", "http_409", "http_400", "http_500",
     "url_error", "timeout", "undecodable"}

Methods == {"GET", "POST", "PUT"}

\* The error message _make_request builds for a failed outcome.
ErrorMsg(outcome) ==
    CASE outcome = "http_401" -> "Invalid API token"
      [] outcome = "http_404" -> "API endpoint not found"
      [] outcome = "http_409" -> "Conflict"
      [] outcome = "http_400" -> "Bad request"
      [] outcome = "http_500" -> "HTTP 500"
      [] outcome = "url_error" -> "Connection error"
      [] outcome \in {"timeout", "undecodable"} -> "Unexpected error"
      [] OTHER -> ""

\* _make_request: urlopens counts the calls of urlopen, result is how control
\* leaves ("response": the decoded answer is returned, "raise": Exception,
\* "exit": sys.exit(1)), alfred_errors the error items printed for Alfred,
\* stderr_errors the error lines printed to stderr.
MakeRequestReturnsUndecodable(output_alfred_format, method, outcome) ==
    IF outcome \in {"ok", "undecodable"}
    THEN [urlopens |-> 1, result |-> "response", error_msg |-> "",
          alfred_errors |-> 0, stderr_errors |-> 0]
    ELSE [urlopens |-> 1,
          result |-> IF output_alfred_format THEN "exit" ELSE "raise",
          error_msg |-> ErrorMsg(outcome),
          alfred_errors |-> IF output_alfred_format THEN 1 ELSE 0,
          stderr_errors |-> IF output_alfred_format THEN 0 ELSE 1]

MakeRequest(output_alfred_format, method, outcome) ==
    IF outcome = "ok"
    THEN [urlopens |-> 1, result |-> "response", error_msg |-> "",
          alfred_errors |-> 0, stderr_errors |-> 0]
    ELSE [urlopens |-> 1,
          result |-> IF output_alfred_format THEN "exit" ELSE "raise",
          error_msg |-> ErrorMsg(outcome),
          alfred_errors |-> IF output_alfred_format THEN 1 ELSE 0,
          stderr_errors |-> IF output_alfred_format THEN 0 ELSE 1]

\* requests: the requests this object has made, each with how it ended.
\* token_hash: hash(api_token) % 10000 in this process; runs: the processes
\* started so far; before: the last call of the process before this one.
NoApi ==
    [output_alfred_format |-> TRUE, remoteCols |-> <<>>, remoteTags |-> <<>>,
     env |-> NoEnv, configured |-> TRUE, cache_ttl |-> CacheTtl(NoEnv),
     requests |-> <<>>, token_hash |-> TokenHash, runs |-> 1, before |-> NoCall,
     last |-> NoCall, prev |-> NoCall]

(***************************************************************************)
(* The search command: main of linkwarden_search.py running search_links.   *)
(***************************************************************************)
\* Ids the command resolved from the query's @collection and #tag filters,
\* and the ids of the links the remote holds. "" stands for None.
CollectionIds == {"A", "B"}
TagIds == {"X", "Y"}
LinkIds == {"L1", "L2"}

Range(seq) == {seq[i] : i \in DOMAIN seq}

SeqsUpTo2(S) == {<<>>} \cup {<<a>> : a \in S} \cup {<<a, b>> : a, b \in S}

\* list(set(ids)): the distinct ids in an order of the set's choosing.
Orderings(S) == {q \in SeqsUpTo2(S) : Range(q) = S /\ Len(q) = Cardinality(S)}

UniqueOrderingsKeepDuplicates(ids) == {ids}

UniqueOrderings(ids) == Orderings(Range(ids))

\* What one GET /links may answer: links in some order, none twice.
Responses == UNION {Orderings(S) : S \in SUBSET LinkIds}

\* search_combinations: every collection with every tag, else one entry per
\* collection, else one per tag; empty when there is no filter.
SearchCombinations(collection_ids, tag_ids) ==
    IF collection_ids # <<>> /\ tag_ids # <<>>
    THEN [k \in 1 .. Len(collection_ids) * Len(tag_ids) |->
            [collection |-> collection_ids[((k - 1) \div Len(tag_ids)) + 1],
             tag |-> tag_ids[((k - 1) % Len(tag_ids)) + 1]]]
    ELSE IF collection_ids # <<>>
    THEN [k \in 1 .. Len(collection_ids) |-> [collection |-> collection_ids[k], tag |-> ""]]
    ELSE [k \in 1 .. Len(tag_ids) |-> [collection |-> "", tag |-> tag_ids[k]]]

\* "Add unique links": append each link of the response whose id was not
\* seen before, in response order.
MergeLinksKeepsAll(all_links, links) == all_links \o links

RECURSIVE MergeLinks(_, _)
MergeLinks(all_links, links) ==
    IF links = <<>> THEN all_links
    ELSE IF Head(links) \in Range(all_links)
    THEN MergeLinks(all_links, Tail(links))
    ELSE MergeLinks(Append(all_links, Head(links)), Tail(links))

\* all_links[:limit] for limit >= 0.
Truncate(all_links, limit) ==
    IF Len(all_links) <= limit THEN all_links ELSE SubSeq(all_links, 1, limit)

\* collection_filters, tag_filters: the names the query gave after @ and #.
IdleSearch ==
    [pc |-> "idle", output_alfred_format |-> TRUE,
     collection_filters |-> <<>>, tag_filters |-> <<>>,
     collection_ids |-> <<>>, tag_ids |-> <<>>, limit |-> 0,
     search_combinations |-> <<>>, calls |-> <<>>, responses |-> <<>>,
     all_links |-> <<>>, ret |-> <<>>]

NoSearch == IdleSearch

(***************************************************************************)
(* The save action: main of linkwarden_save_action.py running create_link.  *)
(***************************************************************************)
\* A link as the remote reports it (updatedAt counts the writes the remote
\* applied to it), and the JSON body of a link response.
NoLink == [id |-> 0, tags |-> <<>>, collection |-> NullCollection, updatedAt |-> 0]
NoResponse == [has_response |-> FALSE, link |-> NoLink]
LinkResponse(link) == [has_response |-> TRUE, link |-> link]

\* The dict "data" of create_link: url, name, description (fixed here), tags
\* and, once a collection resolved, the key collectionId.
NoData == [tags |-> <<>>, has_collectionId |-> FALSE, collectionId |-> 0]

IdleSave ==
    [pc |-> "idle", output_alfred_format |-> FALSE,
     tags |-> <<>>, collection_name |-> "",
     existing_tags |-> <<>>, collections |-> <<>>, resolve |-> "none",
     data |-> NoData, update_data |-> NoData,
     remoteCols |-> <<>>, remoteCols0 |-> <<>>, remoteTags |-> <<>>,
     remoteLink |-> NoLink,
     calls |-> <<>>, result |-> NoResponse, updated_result |-> NoResponse,
     ret |-> NoResponse,
     outcome |-> "none", report |-> "none"]

NoSave == IdleSave

\* One remote call as logged: which endpoint, whether it succeeded, and the
\* collectionId key of its body.
Call(name, ok, body) ==
    [call |-> name, ok |-> ok, has_collectionId |-> body.has_collectionId,
     collectionId |-> body.collectionId, tags |-> body.tags]

CallsTo(calls, name) == {i \in DOMAIN calls : calls[i].call = name}

\* existing_tag_map lookup: the last listed tag whose lower-cased name is
\* that of tag_name, else a name-only object.
TagObjectCaseSensitive(existing_tags, tag_name) ==
    LET hits == {i \in DOMAIN existing_tags : existing_tags[i].name = tag_name}
    IN  IF hits = {} THEN NameOnlyTag(tag_name)
        ELSE existing_tags[CHOOSE i \in hits : \A j \in hits : j <= i]

TagObject(existing_tags, tag_name) ==
    LET hits == {i \in DOMAIN existing_tags :
                    Lower(existing_tags[i].name) = Lower(tag_name)}
    IN  IF hits = {} THEN NameOnlyTag(tag_name)
        ELSE existing_tags[CHOOSE i \in hits : \A j \in hits : j <= i]

\* The loop over collections: id of the first whose name matches
\* case-insensitively, 0 for None.
FindCollectionIdCaseSensitive(collections, collection_name) ==
    LET hits == {i \in DOMAIN collections : collections[i].name = collection_name}
    IN  IF hits = {} THEN 0
        ELSE collections[CHOOSE i \in hits : \A j \in hits : i <= j].id

FindCollectionId(collections, collection_name) ==
    LET hits == {i \in DOMAIN collections :
                    Lower(collections[i].name) = Lower(collection_name)}
    IN  IF hits = {} THEN 0
        ELSE collections[CHOOSE i \in hits : \A j \in hits : i <= j].id

\* "if collection_name and data.get('collectionId')": the two-step branch.
TwoStepByName(data, collection_name) == collection_name # ""

TwoStep(data, collection_name) ==
    collection_name # "" /\ data.has_collectionId /\ data.collectionId # 0

\* The body of POST /links: data_without_collection in the two-step branch,
\* data itself otherwise.
CreateLinkBodyKeepsCollection(data, collection_name) == data

CreateLinkBody(data, collection_name) ==
    IF TwoStep(data, collection_name)
    THEN [data EXCEPT !.has_collectionId = FALSE, !.collectionId = 0]
    ELSE data

\* Inputs of a save and the states of the remote and of the cache it starts in.
SaveTags == {<<>>, <<"NEWS">>, <<"Fun", "News">>}
SaveCollectionNames == {"", "WORK", "Inbox", "unorganized"}
RemoteCollectionLists == {<<Unorganized>>, <<Unorganized, Work>>}
RemoteTagLists == {<<>>, <<TagNews>>}
CachedCollections ==
    {NoFile} \cup {CacheData(l, CacheTtlCollections, 0, 0) : l \in RemoteCollectionLists}
CachedTags == {NoFile, CacheData(<<TagNews>>, CacheTtlTags, 0, 0)}

SaveInit ==
    /\ files \in {f \in [FileNames -> CachedCollections \cup CachedTags] :
                    /\ f[SafeKey(CacheKey("collections"))] \in CachedCollections
                    /\ f[SafeKey(CacheKey("tags"))] \in CachedTags}
    /\ stats = ZeroStats
    /\ now = 0
    /\ nops = 0
    /\ lastOp = NoOp
    /\ procs = NoProcs
    /\ \E cols \in RemoteCollectionLists, tgs \in RemoteTagLists :
          save = [IdleSave EXCEPT !.remoteCols = cols, !.remoteCols0 = cols,
                                  !.remoteTags = tgs]
    /\ search = NoSearch
    /\ api = NoApi

\* main: LinkwardenAPI(output_alfred_format=False), then create_link(url,
\* title, "", tags, collection_name).
StartSave(tags, collection_name) ==
    /\ save.pc = "idle"
    /\ save' = [save EXCEPT !.pc = "tags", !.output_alfred_format = FALSE,
                            !.tags = tags, !.collection_name = collection_name]
    /\ UNCHANGED <<files, stats, now, nops, lastOp, search, api, procs>>

\* create_link, tag objects: get_tags() inside try; a failure of the
\* listing falls back to name-only objects.
ResolveTags(outcome, io) ==
    /\ save.pc = "tags"
    /\ IF save.tags = <<>>
       THEN /\ save' = [save EXCEPT !.pc = "collection"]
            /\ UNCHANGED <<files, stats, api>>
       ELSE LET r == GetCached(files, stats, now, CacheKey("tags"), CacheTtlTags,
                               save.output_alfred_format, outcome, save.remoteTags, io)
                calls == IF r.called
                         THEN Append(save.calls, Call("list_tags", r.error = "none", NoData))
                         ELSE save.calls
                objs == IF r.error = "none"
                        THEN [i \in DOMAIN save.tags |-> TagObject(r.list, save.tags[i])]
                        ELSE [i \in DOMAIN save.tags |-> NameOnlyTag(save.tags[i])]
            IN  /\ files' = r.files
                /\ stats' = r.stats
                /\ save' = [save EXCEPT
                              !.pc = IF r.error = "exit" THEN "exited" ELSE "collection",
                              !.calls = calls,
                              !.existing_tags = IF r.error = "none" THEN r.list ELSE <<>>,
                              !.data = [save.data EXCEPT !.tags = objs]]
    /\ UNCHANGED <<now, nops, lastOp, search, api, procs>>

\* create_link, collection lookup: get_collections() inside try; a
\* failure leaves data without collectionId.
ResolveCollection(outcome, io) ==
    /\ save.pc = "collection"
    /\ IF save.collection_name = ""
       THEN /\ save' = [save EXCEPT !.pc = "create"]
            /\ UNCHANGED <<files, stats, api>>
       ELSE LET r == GetCached(files, stats, now, CacheKey("collections"),
                               CacheTtlCollections, save.output_alfred_format,
                               outcome, save.remoteCols, io)
                calls == IF r.called
                         THEN Append(save.calls,
                                     Call("list_collections", r.error = "none", NoData))
                         ELSE save.calls
                collection_id == IF r.error = "none"
                                 THEN FindCollectionId(r.list, save.collection_name)
                                 ELSE 0
            IN  /\ files' = r.files
                /\ stats' = r.stats
                /\ save' = [save EXCEPT
                              !.pc = IF r.error = "exit" THEN "exited"
                                     ELSE IF r.error = "raise" THEN "create"
                                     ELSE IF collection_id # 0 THEN "create"
                                     ELSE "create_collection",
                              !.calls = calls,
                              !.collections = IF r.error = "none" THEN r.list ELSE <<>>,
                              !.resolve = IF r.error # "none" THEN "list_failed"
                                          ELSE IF collection_id # 0 THEN "found"
                                          ELSE "not_found",
                              !.data = IF collection_id # 0
                                       THEN [save.data EXCEPT !.has_collectionId = TRUE,
                                                              !.collectionId = collection_id]
                                       ELSE save.data]
    /\ UNCHANGED <<now, nops, lastOp, search, api, procs>>

\* create_collection(collection_name) inside try: POST /collections, then the
\* collections cache entry is deleted. outcome: "ok" (the response carries the
\* new id), "no_id" (a response without a usable id), "fail".
CreateCollection(outcome) ==
    /\ save.pc = "create_collection"
    /\ LET failed == outcome = "fail"
           d == CacheDelete(files, stats, CacheKey("collections"))
           new == NewCollection(save.collection_name)
       IN  /\ files' = IF failed THEN files ELSE d.files
           /\ stats' = IF failed THEN stats ELSE d.stats
           /\ save' = [save EXCEPT
                         !.pc = IF failed /\ MakeRequestFailure(save.output_alfred_format) = "exit"
                                THEN "exited" ELSE "create",
                         !.calls = Append(save.calls,
                                          Call("create_collection", ~failed, NoData)),
                         !.resolve = IF failed THEN "create_failed"
                                     ELSE IF outcome = "ok" THEN "created" ELSE "no_id",
                         !.remoteCols = IF outcome = "ok" THEN Append(save.remoteCols, new)
                                        ELSE save.remoteCols,
                         !.data = IF outcome = "ok"
                                  THEN [save.data EXCEPT !.has_collectionId = TRUE,
                                                         !.collectionId = new.id]
                                  ELSE save.data]
    /\ UNCHANGED <<now, nops, lastOp, search, api, procs>>

NameListed(cols, name) == \E i \in DOMAIN cols : cols[i].name = name

\* The remote's collection with the given id.
RemoteCollection(cols, id) == cols[CHOOSE i \in DOMAIN cols : cols[i].id = id]

RemoteHas(cols, id) == \E i \in DOMAIN cols : cols[i].id = id

\* Step 1, POST /links, outside any try. outcome: "ok" (the created link, filed
\* by the remote in its default collection whatever the body says),
\* "ok_null_collection" (the created link with "collection": null),
\* "no_response" (a body without the key "response"), "fail".
\* In the two-step branch update_data is built from the created link:
\* saved_link.get('collection', {}) is None for a null collection, and
\* None.get raises AttributeError out of create_link.
CreateLink(outcome) ==
    /\ save.pc = "create"
    /\ LET two_step == TwoStep(save.data, save.collection_name)
           body == CreateLinkBody(save.data, save.collection_name)
           failed == outcome = "fail"
           link == [id |-> 10, tags |-> body.tags,
                    collection |-> IF outcome = "ok" THEN Unorganized ELSE NullCollection,
                    updatedAt |-> 1]
           result == IF outcome \in {"ok", "ok_null_collection"}
                     THEN LinkResponse(link) ELSE NoResponse
           calls == Append(save.calls, Call("create_link", ~failed, body))
       IN  save' =
             IF failed
             THEN [save EXCEPT
                     !.pc = IF MakeRequestFailure(save.output_alfred_format) = "exit"
                            THEN "exited" ELSE "raised",
                     !.calls = calls, !.outcome = "create_failed"]
             ELSE IF ~result.has_response
             THEN [save EXCEPT !.pc = "returned", !.calls = calls, !.result = result,
                               !.ret = result, !.outcome = "create_failed"]
             ELSE IF ~two_step
             THEN [save EXCEPT !.pc = "returned", !.calls = calls, !.result = result,
                               !.ret = result, !.remoteLink = link,
                               !.outcome = "created"]
             ELSE IF link.collection.null
             THEN [save EXCEPT !.pc = "raised", !.calls = calls, !.result = result,
                               !.remoteLink = link, !.outcome = "attribute_error"]
             ELSE [save EXCEPT !.pc = "update", !.calls = calls, !.result = result,
                               !.remoteLink = link,
                               !.update_data = [tags |-> link.tags,
                                                has_collectionId |-> TRUE,
                                                collectionId |-> save.data.collectionId]]
    /\ UNCHANGED <<files, stats, now, nops, lastOp, search, api, procs>>

\* The verification of step 2: the update's response when it reports the
\* intended collection, else the result of step 1.
VerifiedResultIgnoresCheck(result, updated_result, intended_collection_id) ==
    updated_result

VerifiedResultKeepsFirst(result, updated_result, intended_collection_id) ==
    result

VerifiedResult(result, updated_result, intended_collection_id) ==
    IF updated_result.link.collection.id = intended_collection_id
    THEN updated_result ELSE result

UpdateOutcomes == {"honoured", "ignored", "no_response", "null_collection", "fail"}

\* Step 2, PUT /links/{id} inside try, then the verification. outcome:
\* "honoured" (the remote files the link in the intended collection, which it
\* must hold), "ignored" (the link stays where it is), "no_response",
\* "null_collection" (a response link with "collection": null), "fail".
UpdateLink(outcome) ==
    /\ save.pc = "update"
    /\ outcome = "honoured" => RemoteHas(save.remoteCols, save.update_data.collectionId)
    /\ LET intended_collection_id == save.data.collectionId
           failed == outcome = "fail"
           stored == IF outcome = "honoured"
                     THEN [save.remoteLink EXCEPT
                             !.collection = RemoteCollection(save.remoteCols,
                                                             intended_collection_id),
                             !.updatedAt = @ + 1]
                     ELSE IF failed THEN save.remoteLink
                     ELSE [save.remoteLink EXCEPT !.updatedAt = @ + 1]
           shown == IF outcome = "null_collection"
                    THEN [stored EXCEPT !.collection = NullCollection] ELSE stored
           updated_result == IF outcome \in {"fail", "no_response"}
                             THEN NoResponse ELSE LinkResponse(shown)
           calls == Append(save.calls, Call("update_link", ~failed, save.update_data))
       IN  save' =
             IF failed /\ MakeRequestFailure(save.output_alfred_format) = "exit"
             THEN [save EXCEPT !.pc = "exited", !.calls = calls]
             ELSE IF failed \/ (updated_result.has_response /\ shown.collection.null)
             THEN [save EXCEPT !.pc = "returned", !.calls = calls, !.ret = save.result,
                               !.updated_result = updated_result,
                               !.remoteLink = stored, !.outcome = "update_failed"]
             ELSE IF ~updated_result.has_response
             THEN [save EXCEPT !.pc = "returned", !.calls = calls, !.ret = save.result,
                               !.updated_result = updated_result,
                               !.remoteLink = stored, !.outcome = "update_unexpected"]
             ELSE [save EXCEPT !.pc = "returned", !.calls = calls,
                               !.ret = VerifiedResult(save.result, updated_result,
                                                      intended_collection_id),
                               !.updated_result = updated_result,
                               !.remoteLink = stored,
                               !.outcome = IF shown.collection.id = intended_collection_id
                                           THEN "assigned" ELSE "didnt_stick"]
    /\ UNCHANGED <<files, stats, now, nops, lastOp, search, api, procs>>

\* main after create_link: the notification. A raised error is reported as a
\* failed save. With a collection name the saved collection's name is read
\* from the result (AttributeError on a null collection, reported as a failed
\* save) and compared case-insensitively with the requested name.
SaveReport ==
    /\ save.pc \in {"returned", "raised"}
    /\ LET saved_collection == save.ret.link.collection
           report ==
             IF save.pc = "raised" THEN "failed"
             ELSE IF save.tags = <<>> /\ save.collection_name = "" THEN "saved_default"
             ELSE IF save.collection_name = "" THEN "saved"
             ELSE IF save.ret.has_response /\ saved_collection.null THEN "failed"
             ELSE IF Lower(saved_collection.name) # Lower(save.collection_name)
             THEN "manual_move_needed"
             ELSE "saved_in_collection"
       IN  save' = [save EXCEPT !.pc = "reported", !.report = report]
    /\ UNCHANGED <<files, stats, now, nops, lastOp, search, api, procs>>

SaveNext ==
    \/ \E tags \in SaveTags, collection_name \in SaveCollectionNames :
          StartSave(tags, collection_name)
    \/ \E outcome \in {"ok", "fail"}, io \in {"ok", "write_failed"} :
          ResolveTags(outcome, io)
    \/ \E outcome \in {"ok", "fail"}, io \in {"ok", "write_failed"} :
          ResolveCollection(outcome, io)
    \/ \E outcome \in {"ok", "no_id", "fail"} : CreateCollection(outcome)
    \/ \E outcome \in {"ok", "ok_null_collection", "no_response", "fail"} :
          CreateLink(outcome)
    \/ \E outcome \in UpdateOutcomes : UpdateLink(outcome)
    \/ SaveReport

SaveSpec == SaveInit /\ [][SaveNext]_vars

SearchInit ==
    /\ files = [n \in FileNames |-> NoFile]
    /\ stats = ZeroStats
    /\ now = 0
    /\ nops = 0
    /\ lastOp = NoOp
    /\ procs = NoProcs
    /\ save = NoSave
    /\ search = NoSearch
    /\ api = NoApi

\* main: LinkwardenAPI() (output_alfred_format defaults to True), then
\* search_links(query, collection_ids, tag_ids, limit); the duplicates are
\* removed and the combinations built before the first request.
StartSearch(collection_ids, tag_ids, limit, cs, ts) ==
    /\ search.pc = "idle"
    /\ search' = [search EXCEPT
                    !.pc = "calls", !.output_alfred_format = TRUE,
                    !.collection_ids = collection_ids, !.tag_ids = tag_ids,
                    !.limit = limit,
                    !.search_combinations = SearchCombinations(cs, ts)]
    /\ UNCHANGED <<files, stats, now, nops, lastOp, save, api, procs>>

\* One pass of the loop over search_combinations: the request inside try;
\* "except Exception: continue" skips a call that raised, sys.exit ends the
\* process.
FilteredCall(outcome, links) ==
    /\ search.pc = "calls"
    /\ search.search_combinations # <<>>
    /\ Len(search.calls) < Len(search.search_combinations)
    /\ LET combo == search.search_combinations[Len(search.calls) + 1]
           failed == outcome = "fail"
           calls == Append(search.calls,
                           [collection |-> combo.collection, tag |-> combo.tag,
                            ok |-> ~failed])
       IN  search' =
             IF failed /\ MakeRequestFailure(search.output_alfred_format) = "exit"
             THEN [search EXCEPT !.pc = "exited", !.calls = calls]
             ELSE IF failed
             THEN [search EXCEPT !.calls = calls]
             ELSE [search EXCEPT !.calls = calls,
                                 !.responses = @ \o links,
                                 !.all_links = MergeLinks(@, links)]
    /\ UNCHANGED <<files, stats, now, nops, lastOp, save, api, procs>>

\* The general search when there is no filter: one request outside any try,
\* its response taken as it is.
UnfilteredCall(outcome, links) ==
    /\ search.pc = "calls"
    /\ search.search_combinations = <<>>
    /\ search.calls = <<>>
    /\ LET failed == outcome = "fail"
           calls == <<[collection |-> "", tag |-> "", ok |-> ~failed]>>
       IN  search' =
             IF failed
             THEN [search EXCEPT
                     !.pc = IF MakeRequestFailure(search.output_alfred_format) = "exit"
                            THEN "exited" ELSE "raised",
                     !.calls = calls]
             ELSE [search EXCEPT !.calls = calls, !.responses = links,
                                 !.all_links = links]
    /\ UNCHANGED <<files, stats, now, nops, lastOp, save, api, procs>>

\* return all_links[:limit], once every combination was tried.
SearchReturn ==
    /\ search.pc = "calls"
    /\ search.calls # <<>>
    /\ Len(search.calls) >= Len(search.search_combinations)
    /\ search' = [search EXCEPT !.pc = "returned",
                                !.ret = Truncate(search.all_links, search.limit)]
    /\ UNCHANGED <<files, stats, now, nops, lastOp, save, api, procs>>

SearchNext ==
    \/ /\ search.pc = "idle"
       /\ \E collection_ids \in SeqsUpTo2(CollectionIds), tag_ids \in SeqsUpTo2(TagIds),
             limit \in 0 .. MaxLimit :
             \E cs \in UniqueOrderings(collection_ids), ts \in UniqueOrderings(tag_ids) :
                StartSearch(collection_ids, tag_ids, limit, cs, ts)
    \/ \E outcome \in {"ok", "fail"}, links \in Responses : FilteredCall(outcome, links)
    \/ \E outcome \in {"ok", "fail"}, links \in Responses : UnfilteredCall(outcome, links)
    \/ SearchReturn

SearchSpec == SearchInit /\ [][SearchNext]_vars

(***************************************************************************)
(* search_links as a function of the remote's links and of the order in     *)
(* which list(set(ids)) lists the ids (specification OrderSpec).            *)
(***************************************************************************)
\* The remote's links: each in one collection, with some tags. GET /links
\* with sort=createdAt answers the matching links in the order of LinkOrder.
LinkOrder == <<"L1", "L2">>
RemoteLinks == [LinkIds -> [collection : CollectionIds, tags : SUBSET TagIds]]

Matches(link, combo) ==
    /\ combo.collection # "" => link.collection = combo.collection
    /\ combo.tag # "" => combo.tag \in link.tags

Answer(remote, combo) ==
    LET matching(id) == Matches(remote[id], combo)
    IN  SelectSeq(LinkOrder, matching)

\* The loop over search_combinations, every request answered.
RECURSIVE MergeAnswers(_, _, _)
MergeAnswers(remote, combos, all_links) ==
    IF combos = <<>> THEN all_links
    ELSE MergeAnswers(remote, Tail(combos),
                      MergeLinks(all_links, Answer(remote, Head(combos))))

\* search_links with collection_ids and tag_ids as list(set(...)) left them.
SearchLinks(remote, collection_ids, tag_ids, limit) ==
    LET search_combinations == SearchCombinations(collection_ids, tag_ids)
    IN  IF collection_ids # <<>> \/ tag_ids # <<>>
        THEN Truncate(MergeAnswers(remote, search_combinations, <<>>), limit)
        ELSE Truncate(Answer(remote, [collection |-> "", tag |-> ""]), limit)

\* Two runs of the search, each in a process of its own, with the same ids
\* and the same limit against the same remote.
Runs == {"first", "second"}

OrderInit ==
    /\ files = [n \in FileNames |-> NoFile]
    /\ stats = ZeroStats
    /\ now = 0
    /\ nops = 0
    /\ lastOp = NoOp
    /\ save = NoSave
    /\ search = NoSearch
    /\ api = NoApi
    /\ \E remote \in RemoteLinks, collection_ids \in SeqsUpTo2(CollectionIds),
          tag_ids \in SeqsUpTo2(TagIds), limit \in 0 .. MaxLimit :
          LET run == [IdleSearch EXCEPT !.collection_ids = collection_ids,
                                        !.tag_ids = tag_ids, !.limit = limit]
          IN  procs = [remote |-> remote, first |-> run, second |-> run]

RunSearch(p, cs, ts) ==
    /\ procs[p].pc = "idle"
    /\ procs' = [procs EXCEPT
                   ![p].pc = "returned",
                   ![p].search_combinations = SearchCombinations(cs, ts),
                   ![p].ret = SearchLinks(procs.remote, cs, ts, procs[p].limit)]
    /\ UNCHANGED <<files, stats, now, nops, lastOp, save, search, api>>

OrderNext ==
    \E p \in Runs :
        \E cs \in UniqueOrderings(procs[p].collection_ids),
           ts \in UniqueOrderings(procs[p].tag_ids) : RunSearch(p, cs, ts)

OrderSpec == OrderInit /\ [][OrderNext]_vars

(***************************************************************************)
(* The cache under its operations.                                          *)
(***************************************************************************)
Init ==
    /\ files \in [FileNames -> LeftBehind]
    /\ stats = ZeroStats
    /\ now = 0
    /\ nops = 0
    /\ lastOp = NoOp
    /\ procs = NoProcs
    /\ save = NoSave
    /\ search = NoSearch
    /\ api = NoApi

\* The clock advances between operations.
Tick ==
    /\ now < MaxTime
    /\ now' = now + 1
    /\ UNCHANGED <<files, stats, nops, lastOp, save, search, api, procs>>

\* set(key, value, ttl_seconds); lastOp.at is the first clock read.
Set(key, value, ttl_seconds, d, io) ==
    /\ nops < MaxOps
    /\ now + d <= MaxTime
    /\ LET r == CacheSet(files, stats, now, now + d, key, value, ttl_seconds, io)
       IN  /\ files' = r.files
           /\ stats' = r.stats
           /\ lastOp' = [NoOp EXCEPT !.op = "set", !.key = key, !.value = value,
                                     !.ttl = ttl_seconds, !.ok = r.ok, !.at = now,
                                     !.pre = files[SafeKey(key)], !.files0 = files,
                                     !.stats0 = stats]
    /\ now' = now + d
    /\ nops' = nops + 1
    /\ UNCHANGED <<save, search, api, procs>>

\* get(key); lastOp.pre is the file as get found it.
Get(key) ==
    /\ nops < MaxOps
    /\ LET r == CacheGet(files, stats, now, key)
       IN  /\ files' = r.files
           /\ stats' = r.stats
           /\ lastOp' = [NoOp EXCEPT !.op = "get", !.key = key, !.value = r.value,
                            !.ok = r.hit, !.raised = r.raised, !.at = now,
                            !.pre = files[SafeKey(key)],
                            !.files0 = files, !.stats0 = stats,
                            !.prev = IF lastOp.op = "set" /\ lastOp.key = key
                                     THEN [op |-> "set", key |-> key, set |-> TRUE,
                                           value |-> lastOp.value, ttl |-> lastOp.ttl,
                                           ok |-> lastOp.ok, at |-> lastOp.at]
                                     ELSE IF lastOp.op = "clear" THEN Before(lastOp)
                                     ELSE NoPrev]
    /\ nops' = nops + 1
    /\ UNCHANGED <<now, save, search, api, procs>>

Delete(key) ==
    /\ nops < MaxOps
    /\ LET r == CacheDelete(files, stats, key)
       IN  /\ files' = r.files
           /\ stats' = r.stats
           /\ lastOp' = [NoOp EXCEPT !.op = "delete", !.key = key, !.ok = r.existed,
                                     !.at = now, !.pre = files[SafeKey(key)],
                                     !.files0 = files, !.stats0 = stats,
                                     !.prev = IF lastOp.op = "delete" /\ lastOp.key = key
                                              THEN Before(lastOp) ELSE NoPrev]
    /\ nops' = nops + 1
    /\ UNCHANGED <<now, save, search, api, procs>>

\* get(key) while another process removes the file of key between the
\* existence check and the read.
GetVanished(key) ==
    /\ nops < MaxOps
    /\ files[SafeKey(key)].kind # "absent"
    /\ LET r == CacheGetVanished(files, stats, now, key)
       IN  /\ files' = r.files
           /\ stats' = r.stats
           /\ lastOp' = [NoOp EXCEPT !.op = "get_vanished", !.key = key,
                            !.value = r.value, !.ok = r.hit, !.raised = r.raised,
                            !.at = now,
                            !.pre = files[SafeKey(key)], !.files0 = files,
                            !.stats0 = stats]
    /\ nops' = nops + 1
    /\ UNCHANGED <<now, save, search, api, procs>>

\* clear(); gone are the listed files another process removes first.
Clear(gone) ==
    /\ nops < MaxOps
    /\ gone \subseteq Stored(files)
    /\ LET r == CacheClear(files, stats, gone)
       IN  /\ files' = r.files
           /\ stats' = r.stats
           /\ lastOp' = [NoOp EXCEPT !.op = "clear", !.count = r.deleted_count,
                            !.gone = gone, !.ok = gone = {}, !.at = now,
                            !.files0 = files,
                            !.stats0 = stats,
                            !.prev = IF lastOp.op = "clear" THEN Before(lastOp) ELSE NoPrev]
    /\ nops' = nops + 1
    /\ UNCHANGED <<now, save, search, api, procs>>

\* get_stats(); lastOp.report is what it returned.
GetStats ==
    /\ nops < MaxOps
    /\ lastOp' = [NoOp EXCEPT !.op = "get_stats", !.ok = TRUE, !.at = now,
                              !.files0 = files, !.stats0 = stats,
                              !.report = CacheGetStats(stats)]
    /\ nops' = nops + 1
    /\ UNCHANGED <<files, stats, now, save, search, api, procs>>

\* reset_stats().
ResetStats ==
    /\ nops < MaxOps
    /\ stats' = CacheResetStats(stats)
    /\ lastOp' = [NoOp EXCEPT !.op = "reset_stats", !.ok = TRUE, !.at = now,
                              !.files0 = files, !.stats0 = stats]
    /\ nops' = nops + 1
    /\ UNCHANGED <<files, now, save, search, api, procs>>

\* cleanup_expired().
CleanupExpired ==
    /\ nops < MaxOps
    /\ LET r == CacheCleanupExpired(files, stats, now)
       IN  /\ files' = r.files
           /\ stats' = r.stats
           /\ lastOp' = [NoOp EXCEPT !.op = "cleanup_expired",
                            !.count = r.expired_count, !.ok = TRUE, !.at = now,
                            !.files0 = files, !.stats0 = stats]
    /\ nops' = nops + 1
    /\ UNCHANGED <<now, save, search, api, procs>>

Next ==
    \/ Tick
    \/ \E key \in Keys, value \in JsonValues, ttl_seconds \in TTLs,
          d \in SetDelays, io \in IoOutcomes :
          Set(key, value, ttl_seconds, d, io)
    \/ \E key \in Keys : Get(key)
    \/ \E key \in Keys : Delete(key)

Spec == Init /\ [][Next]_vars

\* The cache over a directory that may also hold files this version of set
\* did not write, with the maintenance operations.
StoredFiles == {NoFile, Garbage, NoExpiresAt, NoValue(1), CacheData("v1", 1, 0, 0)}

StoreInit ==
    /\ files \in [FileNames -> StoredFiles]
    /\ stats = ZeroStats
    /\ now = 0
    /\ nops = 0
    /\ lastOp = NoOp
    /\ procs = NoProcs
    /\ save = NoSave
    /\ search = NoSearch
    /\ api = NoApi

StoreKeys == {CacheKey("tags"), CacheKey("collections")}

StoreNext ==
    \/ Tick
    \/ \E key \in StoreKeys, ttl_seconds \in TTLs, io \in IoOutcomes :
          Set(key, "v2", ttl_seconds, 0, io)
    \/ \E key \in StoreKeys : Get(key)
    \/ \E key \in StoreKeys : GetVanished(key)
    \/ \E key \in StoreKeys : Delete(key)
    \/ \E gone \in SUBSET FileNames : Clear(gone)
    \/ CleanupExpired
    \/ GetStats
    \/ ResetStats

StoreSpec == StoreInit /\ [][StoreNext]_vars

(***************************************************************************)
(* The cached listings: get_collections, get_tags and create_collection on  *)
(* one LinkwardenAPI object (specification ListSpec).                       *)
(***************************************************************************)
\* What the remote may hold, and what earlier calls may have left in the two
\* cache files: nothing, a list cached a moment ago (older than the remote's
\* present list), a list whose ttl has run out, a truncated write, a list
\* whose ttl runs out at time 0.
ListedCollections == {<<>>, <<Unorganized, Work>>}
ListedTags == {<<>>, <<TagNews>>}
CollectionsFiles ==
    {NoFile, Garbage,
     CacheData(<<Unorganized>>, CacheTtlCollections, 0, 0),
     CacheData(<<Unorganized>>, CacheTtlCollections, 0 - CacheTtlCollections - 1, 0),
     CacheData(<<Unorganized>>, CacheTtlCollections, 0 - CacheTtlCollections,
               0 - CacheTtlCollections)}
TagsFiles == {NoFile, CacheData(<<NameOnlyTag("old")>>, CacheTtlTags, 0, 0)}

ListInit ==
    /\ files \in {f \in [FileNames -> CollectionsFiles \cup TagsFiles] :
                    /\ f[SafeKey(CacheKey("collections"))] \in CollectionsFiles
                    /\ f[SafeKey(CacheKey("tags"))] \in TagsFiles}
    /\ stats = ZeroStats
    /\ now = 0
    /\ nops = 0
    /\ lastOp = NoOp
    /\ procs = NoProcs
    /\ save = NoSave
    /\ search = NoSearch
    /\ \E alfred \in BOOLEAN, cols \in ListedCollections, tgs \in ListedTags :
          api = [NoApi EXCEPT !.output_alfred_format = alfred,
                              !.remoteCols = cols, !.remoteTags = tgs]

\* sys.exit(1) ended the process.
Exited == api.last.error = "exit"

\* get_collections(); outcome is the remote's answer to GET /collections.
ListCollections(outcome) ==
    /\ nops < MaxOps /\ ~Exited
    /\ LET key == CacheKeyIn("collections", api.token_hash)
           r == GetCached(files, stats, now, key, api.cache_ttl.collections,
                          api.output_alfred_format, outcome, api.remoteCols, "ok")
       IN  /\ files' = r.files
           /\ stats' = r.stats
           /\ api' = [api EXCEPT
                        !.prev = api.last,
                        !.last = [op |-> "list_collections", key |-> key, at |-> now, pre |-> files[SafeKey(key)],
                                  calls |-> IF r.called THEN 1 ELSE 0,
                                  list |-> r.list, error |-> r.error]]
    /\ nops' = nops + 1
    /\ UNCHANGED <<now, lastOp, save, search, procs>>

\* get_tags(); outcome is the remote's answer to GET /tags.
ListTags(outcome) ==
    /\ nops < MaxOps /\ ~Exited
    /\ LET key == CacheKeyIn("tags", api.token_hash)
           r == GetCached(files, stats, now, key, api.cache_ttl.tags,
                          api.output_alfred_format, outcome, api.remoteTags, "ok")
       IN  /\ files' = r.files
           /\ stats' = r.stats
           /\ api' = [api EXCEPT
                        !.prev = api.last,
                        !.last = [op |-> "list_tags", key |-> key, at |-> now, pre |-> files[SafeKey(key)],
                                  calls |-> IF r.called THEN 1 ELSE 0,
                                  list |-> r.list, error |-> r.error]]
    /\ nops' = nops + 1
    /\ UNCHANGED <<now, lastOp, save, search, procs>>

\* create_collection(name): POST /collections, and when it returned the
\* collections entry is deleted. The remote adds the collection it created.
ApiCreateCollection(name, outcome) ==
    /\ nops < MaxOps /\ ~Exited
    /\ ~NameListed(api.remoteCols, name)
    /\ LET key == CacheKeyIn("collections", api.token_hash)
           failed == outcome = "fail"
           d == CacheDelete(files, stats, key)
       IN  /\ files' = IF failed THEN files ELSE d.files
           /\ stats' = IF failed THEN stats ELSE d.stats
           /\ api' = [api EXCEPT
                        !.remoteCols = IF failed THEN @ ELSE Append(@, NewCollection(name)),
                        !.prev = api.last,
                        !.last = [op |-> "create_collection", key |-> key, at |-> now, pre |-> files[SafeKey(key)],
                                  calls |-> 1,
                                  list |-> IF failed THEN <<>> ELSE <<NewCollection(name)>>,
                                  error |-> IF failed
                                            THEN MakeRequestFailure(api.output_alfred_format)
                                            ELSE "none"]]
    /\ nops' = nops + 1
    /\ UNCHANGED <<now, lastOp, save, search, procs>>

ListNext ==
    \/ Tick
    \/ \E outcome \in {"ok", "fail"} : ListCollections(outcome)
    \/ \E outcome \in {"ok", "fail"} : ListTags(outcome)
    \/ \E outcome \in {"ok", "fail"} : ApiCreateCollection("Inbox", outcome)

ListSpec == ListInit /\ [][ListNext]_vars

(***************************************************************************)
(* The search command from the parsed query on: the filter names resolved   *)
(* to ids, then search_links (specification QuerySpec).                     *)
(***************************************************************************)
\* limit=20 of the command's call of search_links.
SearchLimit == 20

CollectionFilters == {"WORK", "Fun"}
TagFilters == {"NEWS", "Fun"}

\* str(id) on the ids of the model.
Str(id) ==
    CASE id = 1 -> "1" [] id = 2 -> "2" [] id = 3 -> "3" [] OTHER -> "0"

\* The loops of main: for each filter name, the id of the first listed
\* entity whose lower-cased name is the name's; a name without one adds
\* nothing.
RECURSIVE ResolveIds(_, _)
ResolveIds(listed, names) ==
    IF names = <<>> THEN <<>>
    ELSE LET hits == {i \in DOMAIN listed : Lower(listed[i].name) = Lower(Head(names))}
             rest == ResolveIds(listed, Tail(names))
         IN  IF hits = {} THEN rest
             ELSE <<Str(listed[CHOOSE i \in hits : \A j \in hits : i <= j].id)>> \o rest

\* main up to the first request of search_links. cols and tgs are what
\* get_collections() and get_tags() return, each called only when the query
\* has a filter of its kind; a listing that fails ends the process
\* (LinkwardenAPI() prints the error and exits).
StartQuery(collection_filters, tag_filters, cols, tgs, cols_outcome, tags_outcome) ==
    /\ search.pc = "idle"
    /\ LET collection_ids == ResolveIds(cols, collection_filters)
           tag_ids == ResolveIds(tgs, tag_filters)
           failed == \/ collection_filters # <<>> /\ cols_outcome = "fail"
                     \/ tag_filters # <<>> /\ tags_outcome = "fail"
       IN  IF failed
           THEN search' = [search EXCEPT !.pc = "exited",
                                         !.collection_filters = collection_filters,
                                         !.tag_filters = tag_filters]
           ELSE \E cs \in UniqueOrderings(collection_ids),
                   ts \in UniqueOrderings(tag_ids) :
                   search' = [search EXCEPT
                                !.pc = "calls", !.output_alfred_format = TRUE,
                                !.collection_filters = collection_filters,
                                !.tag_filters = tag_filters,
                                !.collection_ids = collection_ids, !.tag_ids = tag_ids,
                                !.limit = SearchLimit,
                                !.search_combinations = SearchCombinations(cs, ts)]
    /\ UNCHANGED <<files, stats, now, nops, lastOp, save, api, procs>>

QueryNext ==
    \/ \E collection_filters \in SeqsUpTo2(CollectionFilters),
          tag_filters \in SeqsUpTo2(TagFilters),
          cols \in ListedCollections, tgs \in ListedTags,
          cols_outcome \in {"ok", "fail"}, tags_outcome \in {"ok", "fail"} :
          StartQuery(collection_filters, tag_filters, cols, tgs, cols_outcome, tags_outcome)
    \/ \E outcome \in {"ok", "fail"}, links \in Responses : FilteredCall(outcome, links)
    \/ \E outcome \in {"ok", "fail"}, links \in Responses : UnfilteredCall(outcome, links)
    \/ SearchReturn

QuerySpec == SearchInit /\ [][QueryNext]_vars

(***************************************************************************)
(* Two processes on one cache file: one in set, one in get, step by step    *)
(* (specification RaceSpec).                                                *)
(***************************************************************************)
RaceKey == CacheKey("collections")
RaceFile == SafeKey(RaceKey)

\* The writer runs set(RaceKey, "v2", ttl); old is the file before it. The
\* reader runs get(RaceKey) or cleanup_expired() (op); cache_data is the
\* content its open and json.load found. unlinked: the file the writer holds
\* open has been removed from the directory, so what it writes is no longer
\* under the file's name. overtaken: the reader removed the file after it
\* had read the entry that was there before the set and the set had
\* returned in between.
IdleWriter ==
    [pc |-> "start", old |-> NoFile, cache_data |-> NoFile, unlinked |-> FALSE,
     stats |-> ZeroStats, ok |-> FALSE]

IdleReader ==
    [pc |-> "start", op |-> "get", cache_data |-> NoFile, value |-> None,
     hit |-> FALSE, raised |-> "none", overtaken |-> FALSE, expired_count |-> 0]

RaceInit ==
    /\ \E old \in {NoFile, CacheData("v1", 1, 0, 0)}, op \in {"get", "cleanup_expired"} :
          /\ files = [name \in FileNames |-> IF name = RaceFile THEN old ELSE NoFile]
          /\ procs = [writer |-> [IdleWriter EXCEPT !.old = old],
                      reader |-> [IdleReader EXCEPT !.op = op]]
    /\ stats = ZeroStats
    /\ now = 0
    /\ nops = 0
    /\ lastOp = NoOp
    /\ save = NoSave
    /\ search = NoSearch
    /\ api = NoApi

\* set, up to open(cache_file, 'w'): cache_data is built from the clock, the
\* open creates or truncates the file.
SetOpen(ttl_seconds) ==
    /\ procs.writer.pc = "start"
    /\ files' = [files EXCEPT ![RaceFile] = Empty]
    /\ procs' = [procs EXCEPT !.writer.pc = "opened",
                              !.writer.cache_data = CacheData("v2", ttl_seconds, now, now)]
    /\ UNCHANGED <<stats, now, nops, lastOp, save, search, api>>

\* json.dump: the text goes to the file object's buffer; flushed tells
\* whether a part of it reached the file before the close.
SetWrite(flushed) ==
    /\ procs.writer.pc = "opened"
    /\ files' = IF flushed /\ ~procs.writer.unlinked
                THEN [files EXCEPT ![RaceFile] = Partial] ELSE files
    /\ procs' = [procs EXCEPT !.writer.pc = "written"]
    /\ UNCHANGED <<stats, now, nops, lastOp, save, search, api>>

\* The end of the with block closes the file: the whole text is in it.
SetClose ==
    /\ procs.writer.pc = "written"
    /\ files' = IF procs.writer.unlinked THEN files
                ELSE [files EXCEPT ![RaceFile] = procs.writer.cache_data]
    /\ procs' = [procs EXCEPT !.writer.pc = "done", !.writer.ok = TRUE,
                              !.writer.stats = Inc(@, {"sets"})]
    /\ UNCHANGED <<stats, now, nops, lastOp, save, search, api>>

\* get, the test cache_file.exists().
GetExists ==
    /\ procs.reader.op = "get"
    /\ procs.reader.pc = "start"
    /\ IF files[RaceFile].kind = "absent"
       THEN LET g == CacheGet(files, stats, now, RaceKey)
            IN  /\ stats' = g.stats
                /\ procs' = [procs EXCEPT !.reader.pc = "done", !.reader.value = g.value,
                                          !.reader.hit = g.hit, !.reader.raised = g.raised]
       ELSE /\ stats' = stats
            /\ procs' = [procs EXCEPT !.reader.pc = "exists"]
    /\ UNCHANGED <<files, now, nops, lastOp, save, search, api>>

\* get, from open to the return, the unlink of an expired entry left to the
\* next step: json.load of what the file holds now, the expiry test, the
\* value.
GetRead ==
    /\ procs.reader.op = "get"
    /\ procs.reader.pc = "exists"
    /\ LET file == files[RaceFile]
           g == IF file.kind = "absent"
                THEN CacheGetVanished(files, stats, now, RaceKey)
                ELSE CacheGet(files, stats, now, RaceKey)
       IN  IF file.kind # "absent" /\ JsonLoads(file) /\ IsExpired(file, now)
           THEN /\ stats' = stats
                /\ procs' = [procs EXCEPT !.reader.pc = "expired",
                                          !.reader.cache_data = file]
           ELSE /\ stats' = g.stats
                /\ procs' = [procs EXCEPT !.reader.pc = "done",
                                          !.reader.cache_data = file,
                                          !.reader.value = g.value,
                                          !.reader.hit = g.hit,
                                          !.reader.raised = g.raised]
    /\ UNCHANGED <<files, now, nops, lastOp, save, search, api>>

\* get, cache_file.unlink(missing_ok=True) of the entry found expired, and
\* the return: whatever is under the name by now is removed.
Overtaken ==
    procs.writer.pc = "done" /\ procs.reader.cache_data = procs.writer.old

GetUnlink ==
    /\ procs.reader.op = "get"
    /\ procs.reader.pc = "expired"
    /\ files' = [files EXCEPT ![RaceFile] = NoFile]
    /\ stats' = Inc(stats, {"expired", "misses"})
    /\ procs' = [procs EXCEPT !.reader.pc = "done", !.reader.value = None,
                              !.reader.hit = FALSE,
                              !.reader.overtaken = Overtaken,
                              !.writer.unlinked = procs.writer.pc \in {"opened", "written"}]
    /\ UNCHANGED <<now, nops, lastOp, save, search, api>>

\* cleanup_expired, glob("*.json"): the files there are now.
CleanupList ==
    /\ procs.reader.op = "cleanup_expired"
    /\ procs.reader.pc = "start"
    /\ procs' = [procs EXCEPT !.reader.pc = IF RaceFile \in Stored(files)
                                            THEN "listed" ELSE "done"]
    /\ UNCHANGED <<files, stats, now, nops, lastOp, save, search, api>>

\* cleanup_expired, open and json.load of the listed file and the expiry
\* test; an entry that is neither unreadable nor expired is kept.
CleanupRead ==
    /\ procs.reader.op = "cleanup_expired"
    /\ procs.reader.pc = "listed"
    /\ procs' = [procs EXCEPT !.reader.cache_data = files[RaceFile],
                              !.reader.pc = IF Removable(files[RaceFile], now)
                                            THEN "expired" ELSE "done"]
    /\ UNCHANGED <<files, stats, now, nops, lastOp, save, search, api>>

\* cleanup_expired, cache_file.unlink() of the file found expired or
\* unreadable, and the end of the loop: expired is raised by the count.
CleanupUnlink ==
    /\ procs.reader.op = "cleanup_expired"
    /\ procs.reader.pc = "expired"
    /\ files' = [files EXCEPT ![RaceFile] = NoFile]
    /\ stats' = [stats EXCEPT !.expired = @ + 1]
    /\ procs' = [procs EXCEPT !.reader.pc = "done", !.reader.expired_count = 1,
                              !.reader.overtaken = Overtaken,
                              !.writer.unlinked = procs.writer.pc \in {"opened", "written"}]
    /\ UNCHANGED <<now, nops, lastOp, save, search, api>>

RaceNext ==
    \/ Tick
    \/ \E ttl_seconds \in TTLs : SetOpen(ttl_seconds)
    \/ \E flushed \in BOOLEAN : SetWrite(flushed)
    \/ SetClose
    \/ GetExists
    \/ GetRead
    \/ GetUnlink
    \/ CleanupList
    \/ CleanupRead
    \/ CleanupUnlink

RaceSpec == RaceInit /\ [][RaceNext]_vars

(***************************************************************************)
(* One workflow invocation after the other, each a process of its own on    *)
(* the same cache directory (specification ProcSpec).                       *)
(***************************************************************************)
\* The invocations follow one another at once: no entry's ttl runs out.
MaxRuns == 2

ProcFileNames ==
    {SafeKey(CacheKeyIn(endpoint, h)) : endpoint \in {"collections", "tags"},
                                        h \in TokenHashes}

ProcInit ==
    /\ files = [name \in ProcFileNames |-> NoFile]
    /\ stats = ZeroStats
    /\ now = 0
    /\ nops = 0
    /\ lastOp = NoOp
    /\ procs = NoProcs
    /\ save = NoSave
    /\ search = NoSearch
    /\ \E alfred \in BOOLEAN, cols \in ListedCollections, tgs \in ListedTags,
          h \in TokenHashes :
          api = [NoApi EXCEPT !.output_alfred_format = alfred, !.token_hash = h,
                              !.remoteCols = cols, !.remoteTags = tgs]

\* The next invocation: a new interpreter process with the same environment
\* (LW_API_URL, LW_API_TOKEN), its own hash salt, a new CacheManager with
\* zeroed counters; the cache directory and the remote stay as they are.
NewInvocation(h) ==
    /\ api.runs < MaxRuns
    /\ api' = [api EXCEPT !.runs = @ + 1, !.token_hash = h,
                          !.before = api.last, !.last = NoCall, !.prev = NoCall]
    /\ stats' = ZeroStats
    /\ nops' = 0
    /\ UNCHANGED <<files, now, lastOp, save, search, procs>>

ProcNext ==
    \/ \E outcome \in {"ok", "fail"} : ListCollections(outcome)
    \/ \E outcome \in {"ok", "fail"} : ListTags(outcome)
    \/ \E outcome \in {"ok", "fail"} : ApiCreateCollection("Inbox", outcome)
    \/ \E h \in TokenHashes : NewInvocation(h)

ProcSpec == ProcInit /\ [][ProcNext]_vars

(***************************************************************************)
(* Processes listing and creating collections side by side on one cache     *)
(* directory, step by step (specification ListRaceSpec).                    *)
(***************************************************************************)
Listers == {"l1", "l2"}

\* A process in get_collections(): after_create tells whether it was called
\* after create_collection had returned in the creator; fetched is the answer
\* to its GET /collections; list what it returned.
IdleLister ==
    [pc |-> "start", token_hash |-> TokenHash, after_create |-> FALSE,
     fetched |-> <<>>, list |-> <<>>, calls |-> 0, error |-> "none",
     stats |-> ZeroStats]

\* The process in create_collection("Inbox").
IdleCreator ==
    [pc |-> "start", token_hash |-> TokenHash, error |-> "none", stats |-> ZeroStats]

ListRaceInit ==
    /\ files = [name \in ProcFileNames |-> NoFile]
    /\ stats = ZeroStats
    /\ now = 0
    /\ nops = 0
    /\ lastOp = NoOp
    /\ save = NoSave
    /\ search = NoSearch
    /\ \E alfred \in BOOLEAN :
          api = [NoApi EXCEPT !.output_alfred_format = alfred,
                              !.remoteCols = <<Unorganized, Work>>]
    /\ \E hc, h1, h2 \in TokenHashes :
          procs = [creator |-> [IdleCreator EXCEPT !.token_hash = hc],
                   l1 |-> [IdleLister EXCEPT !.token_hash = h1],
                   l2 |-> [IdleLister EXCEPT !.token_hash = h2]]

CreateReturned == procs.creator.pc = "done" /\ procs.creator.error = "none"

\* get_collections, the cache lookup: a hit is returned.
LGet(p) ==
    /\ procs[p].pc = "start"
    /\ LET g == CacheGet(files, procs[p].stats, now,
                         CacheKeyIn("collections", procs[p].token_hash))
       IN  /\ files' = g.files
           /\ procs' = [procs EXCEPT ![p].pc = IF g.hit THEN "done" ELSE "fetch",
                                     ![p].after_create = CreateReturned,
                                     ![p].list = IF g.hit THEN g.value ELSE <<>>,
                                     ![p].stats = g.stats]
    /\ UNCHANGED <<stats, now, nops, lastOp, save, search, api>>

\* get_collections, GET /collections after a miss: the remote's list as it
\* is now; an empty list is returned without being cached.
LFetch(p, outcome) ==
    /\ procs[p].pc = "fetch"
    /\ procs' = [procs EXCEPT
                   ![p].calls = 1,
                   ![p].fetched = IF outcome = "fail" THEN <<>> ELSE api.remoteCols,
                   ![p].error = IF outcome = "fail"
                                THEN MakeRequestFailure(api.output_alfred_format)
                                ELSE "none",
                   ![p].pc = IF outcome = "fail" \/ api.remoteCols = <<>>
                             THEN "done" ELSE "store"]
    /\ UNCHANGED <<files, stats, now, nops, lastOp, save, search, api>>

\* get_collections, cache.set of the fetched list and the return.
LStore(p) ==
    /\ procs[p].pc = "store"
    /\ LET w == CacheSet(files, procs[p].stats, now, now,
                         CacheKeyIn("collections", procs[p].token_hash),
                         procs[p].fetched, api.cache_ttl.collections, "ok")
       IN  /\ files' = w.files
           /\ procs' = [procs EXCEPT ![p].pc = "done", ![p].list = procs[p].fetched,
                                     ![p].stats = w.stats]
    /\ UNCHANGED <<stats, now, nops, lastOp, save, search, api>>

\* create_collection, POST /collections: the remote adds the collection.
CPost(outcome) ==
    /\ procs.creator.pc = "start"
    /\ IF outcome = "fail"
       THEN /\ api' = api
            /\ procs' = [procs EXCEPT
                           !.creator.pc = "done",
                           !.creator.error = MakeRequestFailure(api.output_alfred_format)]
       ELSE /\ api' = [api EXCEPT !.remoteCols = Append(@, NewCollection("Inbox"))]
            /\ procs' = [procs EXCEPT !.creator.pc = "invalidate"]
    /\ UNCHANGED <<files, stats, now, nops, lastOp, save, search>>

\* create_collection, cache.delete of the collections entry and the return.
CInvalidate ==
    /\ procs.creator.pc = "invalidate"
    /\ LET d == CacheDelete(files, procs.creator.stats,
                            CacheKeyIn("collections", procs.creator.token_hash))
       IN  /\ files' = d.files
           /\ procs' = [procs EXCEPT !.creator.pc = "done", !.creator.stats = d.stats]
    /\ UNCHANGED <<stats, now, nops, lastOp, save, search, api>>

ListRaceNext ==
    \/ \E p \in Listers : LGet(p)
    \/ \E p \in Listers, outcome \in {"ok", "fail"} : LFetch(p, outcome)
    \/ \E p \in Listers : LStore(p)
    \/ \E outcome \in {"ok", "fail"} : CPost(outcome)
    \/ CInvalidate

ListRaceSpec == ListRaceInit /\ [][ListRaceNext]_vars

(***************************************************************************)
(* The cache configuration: __init__ reading the ttl overrides              *)
(* (specification TtlSpec).                                                 *)
(***************************************************************************)
\* Texts an override may hold, each with what it denotes: an integer n, or
\* no integer.
EnvTexts ==
    {[text |-> <<>>, int |-> FALSE, n |-> 0],
     [text |-> <<"a", "b", "c">>, int |-> FALSE, n |-> 0],
     [text |-> <<"1", "2", ".", "5">>, int |-> FALSE, n |-> 0],
     [text |-> <<"1", "e", "3">>, int |-> FALSE, n |-> 0],
     [text |-> <<"-">>, int |-> FALSE, n |-> 0],
     [text |-> <<"-", "5">>, int |-> TRUE, n |-> 0 - 5],
     [text |-> <<"0">>, int |-> TRUE, n |-> 0],
     [text |-> <<"2", "9">>, int |-> TRUE, n |-> 29],
     [text |-> <<"3", "0">>, int |-> TRUE, n |-> 30],
     [text |-> <<" ", "4", "5", " ">>, int |-> TRUE, n |-> 45],
     [text |-> <<"+", "6", "0", "0">>, int |-> TRUE, n |-> 600],
     [text |-> <<"8", "6", "4", "0", "0">>, int |-> TRUE, n |-> 86400],
     [text |-> <<"8", "6", "4", "0", "1">>, int |-> TRUE, n |-> 86401],
     [text |-> <<"8", "6", "_", "4", "0", "1">>, int |-> TRUE, n |-> 86401]}

EnvValues == {Unset} \cup {e.text : e \in EnvTexts}

TtlInit ==
    /\ files = [name \in FileNames |-> NoFile]
    /\ stats = ZeroStats
    /\ now = 0
    /\ nops = 0
    /\ lastOp = NoOp
    /\ procs = NoProcs
    /\ save = NoSave
    /\ search = NoSearch
    /\ \E alfred \in BOOLEAN, c, t, q \in EnvValues :
          api = [NoApi EXCEPT !.output_alfred_format = alfred, !.configured = FALSE,
                              !.env = [collections |-> c, tags |-> t, search |-> q],
                              !.cache_ttl = [collections |-> 0, tags |-> 0, search |-> 0]]

\* LinkwardenAPI.__init__: the three ttls from the environment.
ApiInit ==
    /\ ~api.configured
    /\ api' = [api EXCEPT !.configured = TRUE, !.cache_ttl = CacheTtl(api.env)]
    /\ UNCHANGED <<files, stats, now, nops, lastOp, save, search, procs>>

TtlNext == ApiInit

TtlSpec == TtlInit /\ [][TtlNext]_vars

(***************************************************************************)
(* Requests of one API object, one after the other (specification           *)
(* RequestSpec).                                                            *)
(***************************************************************************)
RequestInit ==
    /\ files = [name \in FileNames |-> NoFile]
    /\ stats = ZeroStats
    /\ now = 0
    /\ nops = 0
    /\ lastOp = NoOp
    /\ procs = NoProcs
    /\ save = NoSave
    /\ search = NoSearch
    /\ \E alfred \in BOOLEAN : api = [NoApi EXCEPT !.output_alfred_format = alfred]

\* sys.exit(1) has ended the process.
RequestExited ==
    \E i \in DOMAIN api.requests : api.requests[i].result = "exit"

Request(method, outcome) ==
    /\ nops < MaxOps
    /\ ~RequestExited
    /\ LET r == MakeRequest(api.output_alfred_format, method, outcome)
       IN  api' = [api EXCEPT !.requests =
                      Append(@, [method |-> method, outcome |-> outcome,
                                 urlopens |-> r.urlopens, result |-> r.result,
                                 error_msg |-> r.error_msg,
                                 alfred_errors |-> r.alfred_errors,
                                 stderr_errors |-> r.stderr_errors])]
    /\ nops' = nops + 1
    /\ UNCHANGED <<files, stats, now, lastOp, save, search, procs>>

RequestNext == \E method \in Methods, outcome \in Outcomes : Request(method, outcome)

RequestSpec == RequestInit /\ [][RequestNext]_vars

(***************************************************************************)
(* Claims about the cache (specification Spec).                             *)
(***************************************************************************)
\* C1: a set(k, v, ttl) with ttl > 0 that returns true, followed immediately
\* by get(k) with the clock where set read it, returns (v, true).
C1_SetThenGetHits ==
    (/\ lastOp.op = "get"
     /\ lastOp.prev.set /\ lastOp.prev.ok /\ lastOp.prev.ttl > 0
     /\ lastOp.at = lastOp.prev.at)
    => (lastOp.ok /\ lastOp.value = lastOp.prev.value)

C1_Witness ==
    /\ lastOp.op = "get"
    /\ lastOp.prev.set /\ lastOp.prev.ok /\ lastOp.prev.ttl > 0
    /\ lastOp.at = lastOp.prev.at
    /\ lastOp.ok /\ lastOp.value = "v2"

\* C2: a get(k) that finds the entry a set wrote, more than ttl after that
\* set returned (created_at is the clock as set returned), returns found =
\* false and leaves no entry for k in storage.
C2_GetAfterTtlMisses ==
    (/\ lastOp.op = "get"
     /\ lastOp.pre.kind = "entry"
     /\ lastOp.at > lastOp.pre.created_at + lastOp.pre.ttl)
    => (~lastOp.ok /\ files[SafeKey(lastOp.key)] = NoFile)

C2_Witness ==
    /\ lastOp.op = "get"
    /\ lastOp.pre.kind = "entry" /\ lastOp.pre.ttl > 0 /\ lastOp.pre.value = "v2"
    /\ lastOp.at > lastOp.pre.created_at + lastOp.pre.ttl
    /\ ~lastOp.ok /\ files[SafeKey(lastOp.key)] = NoFile

(***************************************************************************)
(* Claims about the two-step save (specification SaveSpec).                 *)
(***************************************************************************)
SaveEnded == save.pc \in {"returned", "raised", "exited", "reported"}
SaveReturned == save.pc = "returned" \/ (save.pc = "reported" /\ save.report # "failed")
NameExists(cols, name) == \E i \in DOMAIN cols : Lower(cols[i].name) = Lower(name)
AllCallsOk == \A i \in DOMAIN save.calls : save.calls[i].ok

\* C3: no link-create request carries the key collectionId, whatever was
\* requested, resolved or created.
C3_CreateCarriesNoCollection ==
    \A i \in CallsTo(save.calls, "create_link") : ~save.calls[i].has_collectionId

C3_Witness ==
    /\ CallsTo(save.calls, "create_link") # {}
    /\ \E i \in CallsTo(save.calls, "create_collection") : save.calls[i].ok
    /\ save.data.has_collectionId /\ save.data.collectionId = NewCollection("x").id

\* C4: a save naming a collection the remote does not hold, in which every
\* remote call succeeds and the remote honours the update, issues exactly one
\* create-collection call, exactly one create-link call and after it exactly
\* one update-link call, and returns a link filed under the new collection's id.
C4_Honoured ==
    /\ save.pc \in {"returned", "reported"}
    /\ save.collection_name # ""
    /\ ~NameExists(save.remoteCols0, save.collection_name)
    /\ AllCallsOk
    /\ CallsTo(save.calls, "update_link") # {}
    /\ save.updated_result.has_response
    /\ save.remoteLink.collection.id = save.update_data.collectionId
    /\ save.updated_result.link = save.remoteLink

C4_NewCollectionSave ==
    C4_Honoured =>
        /\ Cardinality(CallsTo(save.calls, "create_collection")) = 1
        /\ Cardinality(CallsTo(save.calls, "create_link")) = 1
        /\ Cardinality(CallsTo(save.calls, "update_link")) = 1
        /\ \A i \in CallsTo(save.calls, "create_link") :
              \A j \in CallsTo(save.calls, "update_link") : i < j
        /\ save.ret.has_response
        /\ save.ret.link.collection.id = NewCollection(save.collection_name).id
        /\ ~RemoteHas(save.remoteCols0, save.ret.link.collection.id)

C4_Witness == C4_Honoured /\ save.collection_name = "Inbox"

\* C5: when the update succeeds and its response reports a collection id
\* other than the intended one, the save returns the step-1 link, whose
\* collection is not the intended one, and the caller reports that a manual
\* move is needed.
C5_Mismatch ==
    /\ save.pc \in {"returned", "reported"}
    /\ \E i \in CallsTo(save.calls, "update_link") : save.calls[i].ok
    /\ save.updated_result.has_response
    /\ ~save.updated_result.link.collection.null
    /\ save.updated_result.link.collection.id # save.update_data.collectionId

C5_MismatchReturnsFirst ==
    C5_Mismatch =>
        /\ save.ret = save.result
        /\ save.ret.has_response
        /\ save.ret.link.collection.id # save.update_data.collectionId
        /\ save.pc = "reported" => save.report = "manual_move_needed"

C5_Witness == C5_Mismatch /\ save.pc = "reported"

\* C6: when the update call itself fails, create_link still returns, and
\* what it returns is the step-1 result.
C6_UpdateFailed ==
    \E i \in CallsTo(save.calls, "update_link") : ~save.calls[i].ok

C6_UpdateErrorAbsorbed ==
    C6_UpdateFailed =>
        /\ save.pc \in {"returned", "reported"}
        /\ save.outcome = "update_failed"
        /\ save.ret = save.result /\ save.ret.has_response
        /\ save.pc = "reported" => save.report # "failed"

C6_Witness == C6_UpdateFailed /\ save.pc = "reported"

\* C7: once the create call has returned a link, the save never ends by
\* raising, whatever the created link looks like (its collection may be null).
C7_CreatedNeverRaises ==
    save.result.has_response => save.pc \notin {"raised", "exited"}

(***************************************************************************)
(* Claims about the search (specification SearchSpec).                      *)
(***************************************************************************)
SearchEnded == search.pc \in {"returned", "raised", "exited"}
SearchC == Range(search.collection_ids)
SearchT == Range(search.tag_ids)
OkCalls == {i \in DOMAIN search.calls : search.calls[i].ok}

RECURSIVE FirstOccurrences(_)
FirstOccurrences(seq) ==
    IF seq = <<>> THEN <<>>
    ELSE LET front == FirstOccurrences(SubSeq(seq, 1, Len(seq) - 1))
             last == seq[Len(seq)]
         IN  IF \E i \in 1 .. Len(seq) - 1 : seq[i] = last
             THEN front ELSE Append(front, last)

\* C8: with filters given, a combination call that fails does not end the
\* search: it returns normally, with the links of the calls that succeeded.
C8_FailSoft ==
    (/\ SearchEnded
     /\ search.search_combinations # <<>>
     /\ \E i \in DOMAIN search.calls : ~search.calls[i].ok)
    => (/\ search.pc = "returned"
        /\ search.ret = Truncate(FirstOccurrences(search.responses), search.limit))

\* C9: a search issues one call per filter combination: |C|*|T| calls when
\* both id sets are non-empty, |C| or |T| when one is, one unfiltered call
\* when both are empty, no combination twice.
ExpectedCombinations ==
    IF SearchC # {} /\ SearchT # {}
    THEN {[collection |-> c, tag |-> t] : c \in SearchC, t \in SearchT}
    ELSE IF SearchC # {} THEN {[collection |-> c, tag |-> ""] : c \in SearchC}
    ELSE IF SearchT # {} THEN {[collection |-> "", tag |-> t] : t \in SearchT}
    ELSE {[collection |-> "", tag |-> ""]}

IssuedCombinations ==
    {[collection |-> search.calls[i].collection, tag |-> search.calls[i].tag] :
        i \in DOMAIN search.calls}

C9_OneCallPerCombination ==
    SearchEnded =>
        /\ Len(search.calls) = Cardinality(ExpectedCombinations)
        /\ IssuedCombinations = ExpectedCombinations

\* C9 on the searches that return: the same count and the same combinations.
C9_ReturnedOneCallPerCombination ==
    search.pc = "returned" =>
        /\ Len(search.calls) = Cardinality(ExpectedCombinations)
        /\ IssuedCombinations = ExpectedCombinations

\* C10: the result is the first limit elements of the successful responses
\* concatenated in call order with only the first occurrence of each link
\* kept: no link twice, every returned link in it up to the limit.
C10_MergedResult ==
    search.pc = "returned" =>
        /\ search.ret = Truncate(FirstOccurrences(search.responses), search.limit)
        /\ Len(search.ret) <= search.limit
        /\ \A i, j \in DOMAIN search.ret : search.ret[i] = search.ret[j] => i = j
        /\ Len(search.ret) < search.limit => Range(search.ret) = Range(search.responses)

C10_Witness ==
    /\ search.pc = "returned"
    /\ Len(search.calls) = 4
    /\ Len(search.responses) > Cardinality(Range(search.responses))
    /\ search.ret = <<"L2", "L1">>

(***************************************************************************)
(* Claims about the cached listings (specification ListSpec).               *)
(***************************************************************************)
CollectionsFile == SafeKey(CacheKey("collections"))
TagsFile == SafeKey(CacheKey("tags"))
IsListing(call) == call.op \in {"list_collections", "list_tags"}
ListingFile(call) == IF call.op = "list_collections" THEN CollectionsFile ELSE TagsFile
ListingTtl(call) ==
    IF call.op = "list_collections" THEN CacheTtlCollections ELSE CacheTtlTags
RemoteList(call) == IF call.op = "list_collections" THEN api.remoteCols ELSE api.remoteTags
ValidUnexpired(file, t) == file.kind = "entry" /\ t <= file.expires_at
Returned(call) == call.error = "none"
MissedEmpty(call) ==
    IsListing(call) /\ call.calls = 1 /\ Returned(call) /\ call.list = <<>>

C12_HitOrOneCall ==
    IsListing(api.last) =>
        IF ValidUnexpired(api.last.pre, api.last.at)
        THEN /\ api.last.calls = 0 /\ Returned(api.last)
             /\ api.last.list = api.last.pre.value
        ELSE /\ api.last.calls = 1
             /\ Returned(api.last) => api.last.list = RemoteList(api.last)

C12_Witness ==
    /\ api.last.op = "list_collections" /\ api.last.calls = 0
    /\ api.last.list = <<Unorganized>> /\ api.last.list # api.remoteCols
    /\ api.prev.op = "list_tags" /\ api.prev.calls = 1 /\ api.prev.list = <<TagNews>>

\* C13: a listing that missed and got an empty list stores nothing, and the
\* same listing called next issues a request again; a listing that missed
\* and got a non-empty list stores it, expiring the configured ttl later.
C13_EmptyNotCached ==
    /\ MissedEmpty(api.last) => files[ListingFile(api.last)].kind # "entry"
    /\ (MissedEmpty(api.prev) /\ api.last.op = api.prev.op) => api.last.calls = 1
    /\ (/\ IsListing(api.last) /\ api.last.calls = 1 /\ Returned(api.last)
        /\ api.last.list # <<>>)
          => /\ files[ListingFile(api.last)].kind = "entry"
             /\ files[ListingFile(api.last)].value = api.last.list
             /\ files[ListingFile(api.last)].expires_at
                   = api.last.at + ListingTtl(api.last)

C13_Witness ==
    /\ MissedEmpty(api.prev) /\ api.last.op = api.prev.op /\ MissedEmpty(api.last)
    /\ api.last.op = "list_tags" /\ now > api.prev.at

(***************************************************************************)
(* Claims about the cache operations one by one (specification StoreSpec).  *)
(***************************************************************************)
LastFile == SafeKey(lastOp.key)
OtherFilesUnchanged == \A name \in FileNames \ {LastFile} : files[name] = lastOp.files0[name]
CountersUnchangedExcept(counters) ==
    \A c \in DOMAIN stats : c \notin counters => stats[c] = lastOp.stats0[c]
CompleteEntry(file) == file.kind = "entry"
IsGet == lastOp.op \in {"get", "get_vanished"}

\* C14: get raises nothing to its caller whatever it finds (no file, a valid
\* entry, an expired one, unparsable text, an object missing a field, a file
\* that vanishes between the existence check and the read); it returns
\* found = true with the stored value exactly for a complete unexpired entry
\* that is still there, and (None, false) in every other case.
C14_GetNeverRaises ==
    IsGet =>
        /\ lastOp.raised = "none"
        /\ lastOp.ok <=> (/\ lastOp.op = "get" /\ CompleteEntry(lastOp.pre)
                          /\ lastOp.at <= lastOp.pre.expires_at)
        /\ lastOp.ok => lastOp.value = lastOp.pre.value
        /\ ~lastOp.ok => lastOp.value = None

C14_Witness ==
    /\ lastOp.op = "get" /\ lastOp.pre.kind = "no_value"
    /\ lastOp.at <= lastOp.pre.expires_at
    /\ ~lastOp.ok /\ lastOp.raised = "none"
    /\ lastOp.stats0.errors = 1 /\ stats.errors = 2

\* C15: a get that finds no file for its key returns found = false, adds
\* one to misses and leaves errors (and every other counter) as it was.
C15_AbsentIsPlainMiss ==
    (lastOp.op = "get" /\ lastOp.pre.kind = "absent")
    => /\ ~lastOp.ok
       /\ stats.misses = lastOp.stats0.misses + 1
       /\ stats.errors = lastOp.stats0.errors
       /\ CountersUnchangedExcept({"misses"})
       /\ files = lastOp.files0

C15_Witness ==
    /\ lastOp.op = "get" /\ lastOp.pre.kind = "absent" /\ ~lastOp.ok
    /\ lastOp.stats0.errors = 1 /\ stats.errors = 1 /\ stats.misses = 2

ExpiredOrUnreadable(file, t) ==
    \/ file.kind = "garbage"
    \/ file.kind = "no_expires_at"
    \/ file.kind \in {"entry", "no_value"} /\ file.expires_at < t

CleanupRemoved ==
    {name \in FileNames : lastOp.files0[name].kind # "absent" /\ files[name] = NoFile}

C17_CleanupExact ==
    lastOp.op = "cleanup_expired" =>
        /\ \A name \in FileNames :
              IF /\ lastOp.files0[name].kind # "absent"
                 /\ ExpiredOrUnreadable(lastOp.files0[name], lastOp.at)
              THEN files[name] = NoFile
              ELSE files[name] = lastOp.files0[name]
        /\ lastOp.count = Cardinality(CleanupRemoved)

C17_Witness ==
    /\ lastOp.op = "cleanup_expired" /\ lastOp.count = 1
    /\ \E name \in FileNames :
          /\ lastOp.files0[name].kind = "entry" /\ files[name] = NoFile
    /\ \E name \in FileNames :
          /\ files[name].kind = "entry" /\ files[name].expires_at = lastOp.at

\* C18: a set(k, v, ttl) that returns true at time now leaves for k the
\* entry with value v and expires_at = now + ttl, whatever was stored for k
\* before, leaves the other files alone and adds exactly one to sets.
C18_SetReplaces ==
    (lastOp.op = "set" /\ lastOp.ok)
    => /\ files[LastFile].kind = "entry"
       /\ files[LastFile].value = lastOp.value
       /\ files[LastFile].expires_at = lastOp.at + lastOp.ttl
       /\ OtherFilesUnchanged
       /\ stats.sets = lastOp.stats0.sets + 1
       /\ CountersUnchangedExcept({"sets"})

C18_Witness ==
    /\ lastOp.op = "set" /\ lastOp.ok
    /\ lastOp.pre.kind = "entry" /\ lastOp.pre.value # lastOp.value
    /\ lastOp.pre.expires_at # lastOp.at + lastOp.ttl
    /\ lastOp.at > 0

C20_ClearEmpties ==
    /\ lastOp.op = "clear" =>
          /\ lastOp.count = Cardinality(Stored(lastOp.files0) \ lastOp.gone)
          /\ lastOp.ok => Stored(files) = {}
          /\ (lastOp.prev.op = "clear" /\ lastOp.prev.ok) => lastOp.count = 0
    /\ (lastOp.op = "get" /\ lastOp.prev.op = "clear" /\ lastOp.prev.ok) => ~lastOp.ok
    /\ (lastOp.op = "get" /\ Stored(lastOp.files0) = {}) => ~lastOp.ok

C20_Witness ==
    /\ lastOp.op = "clear" /\ lastOp.ok /\ lastOp.count = 2 /\ Stored(files) = {}
    /\ lastOp.stats0.sets = 1

(***************************************************************************)
(* More claims about the save (specification SaveSpec).                     *)
(***************************************************************************)
ListTagsFailed == \E i \in CallsTo(save.calls, "list_tags") : ~save.calls[i].ok
SameNameTags(tag_name) ==
    {j \in DOMAIN save.existing_tags :
        Lower(save.existing_tags[j].name) = Lower(tag_name)}
CallRank(name) ==
    CASE name = "list_tags" -> 1
      [] name = "list_collections" -> 2
      [] name = "create_collection" -> 3
      [] name = "create_link" -> 4
      [] name = "update_link" -> 5
ResolveFailed == save.resolve \in {"list_failed", "create_failed", "no_id"}
LinkCreated == save.result.has_response

\* C21: the tags of the link-create request are one object per requested
\* name, in request order: a listed tag whose name equals the requested one
\* up to case when get_tags returned one, else the name-only object; when
\* the listing failed every object is name-only and the create call is
\* still issued.
C21_TagsResolved ==
    /\ \A c \in CallsTo(save.calls, "create_link") :
          LET sent == save.calls[c].tags
          IN  /\ Len(sent) = Len(save.tags)
              /\ \A i \in DOMAIN save.tags :
                    IF ListTagsFailed \/ SameNameTags(save.tags[i]) = {}
                    THEN sent[i] = NameOnlyTag(save.tags[i])
                    ELSE \E j \in SameNameTags(save.tags[i]) :
                            sent[i] = save.existing_tags[j]
    /\ (ListTagsFailed /\ SaveEnded) => CallsTo(save.calls, "create_link") # {}

C21_Witness ==
    /\ save.tags = <<"NEWS">>
    /\ \E c \in CallsTo(save.calls, "create_link") : save.calls[c].tags = <<TagNews>>

\* C22: when the collection listing fails, or the collection's creation
\* fails or answers without an id, the save goes on: it issues exactly one
\* link-create call, whose body has no collectionId, and no link-update call.
C22_ResolveNonFatal ==
    (ResolveFailed /\ SaveEnded)
    => /\ Cardinality(CallsTo(save.calls, "create_link")) = 1
       /\ \A c \in CallsTo(save.calls, "create_link") : ~save.calls[c].has_collectionId
       /\ CallsTo(save.calls, "update_link") = {}

C22_Witness ==
    /\ save.resolve = "create_failed" /\ save.pc = "reported"
    /\ save.report = "manual_move_needed"

\* C23: once the save has reported, a link that was created is reported as
\* saved, with the collection flagged as not assigned exactly when the link
\* is not in the requested collection.
C23_ReportDistinguishes ==
    (save.pc = "reported" /\ LinkCreated)
    => /\ save.report # "failed"
       /\ save.collection_name # "" =>
             (save.report = "manual_move_needed"
                <=> Lower(save.remoteLink.collection.name) # Lower(save.collection_name))

\* C27: the remote calls of a save follow the order list-tags,
\* list-collections, create-collection, create-link, update-link, none
\* twice; create-collection only when the listed collections hold no
\* collection of the requested name; update-link only after a create-link
\* that returned a link, and only with a resolved collection id.
C27_CallOrder ==
    /\ \A i, j \in DOMAIN save.calls :
          i < j => CallRank(save.calls[i].call) < CallRank(save.calls[j].call)
    /\ CallsTo(save.calls, "create_collection") # {}
          => /\ save.collection_name # ""
             /\ ~NameExists(save.collections, save.collection_name)
    /\ \A u \in CallsTo(save.calls, "update_link") :
          /\ \E c \in CallsTo(save.calls, "create_link") : c < u /\ save.calls[c].ok
          /\ LinkCreated
          /\ save.data.has_collectionId /\ save.data.collectionId # 0
          /\ save.calls[u].collectionId = save.data.collectionId

C27_Witness ==
    /\ Len(save.calls) = 5
    /\ save.calls[3].call = "create_collection"
    /\ save.calls[5].call = "update_link"

\* C28: a save whose link-create call failed issues no update call and
\* leaves the remote as it was before the save started, also when the
\* collection was resolved before.
C28_CreateFailedNothingToUndo ==
    (\E c \in CallsTo(save.calls, "create_link") : ~save.calls[c].ok)
    => /\ CallsTo(save.calls, "update_link") = {}
       /\ save.remoteLink = NoLink
       /\ save.remoteCols = save.remoteCols0

(***************************************************************************)
(* Claims about the configuration (specification TtlSpec).                  *)
(***************************************************************************)
Clamped(x) == IF x < 30 THEN 30 ELSE IF x > 86400 THEN 86400 ELSE x

\* What the claim expects for an override text and a category default.
ExpectedTtl(value, default) ==
    IF value = Unset THEN default
    ELSE LET e == CHOOSE e \in EnvTexts : e.text = value
         IN  IF e.int THEN Clamped(e.n) ELSE default

\* C25: an integer override x gives the ttl x clamped into [30, 86400]; an
\* unset or non-integer override gives the default of its category (600,
\* 600, 120); every ttl in force lies in [30, 86400].
C25_TtlClamped ==
    api.configured =>
        /\ api.cache_ttl.collections = ExpectedTtl(api.env.collections, 600)
        /\ api.cache_ttl.tags = ExpectedTtl(api.env.tags, 600)
        /\ api.cache_ttl.search = ExpectedTtl(api.env.search, 120)
        /\ \A c \in DOMAIN api.cache_ttl :
              api.cache_ttl[c] >= 30 /\ api.cache_ttl[c] <= 86400

C25_Witness ==
    /\ api.configured
    /\ api.env.collections = <<"2", "9">> /\ api.cache_ttl.collections = 30
    /\ api.env.tags = <<"8", "6", "_", "4", "0", "1">> /\ api.cache_ttl.tags = 86400
    /\ api.env.search = <<"1", "e", "3">> /\ api.cache_ttl.search = 120

ListedAgainInNextRun ==
    /\ api.runs > 1
    /\ api.prev = NoCall
    /\ api.before.op \in {"list_collections", "list_tags"}
    /\ api.last.op = api.before.op
    /\ api.before.calls = 1 /\ api.before.error = "none" /\ api.before.list # <<>>
    /\ api.last.at <= api.before.at + ListingTtl(api.before)

\* C24: two invocations with the same endpoint, base URL and credential
\* derive the same cache key, so the list one invocation stored is a hit in
\* the next: the next invocation's listing issues no request and returns
\* that list.
C24_SameKeyAcrossRuns ==
    ListedAgainInNextRun
    => /\ api.last.key = api.before.key
       /\ api.last.calls = 0
       /\ api.last.list = api.before.list

(***************************************************************************)
(* Claims about a set and a get racing (specification RaceSpec).            *)
(***************************************************************************)
ReaderDone == procs.reader.op = "get" /\ procs.reader.pc = "done"

\* C29: however the steps of a set (truncate, write, close) and of another
\* process's get of the same key interleave, the get raises nothing and
\* returns either a miss (None, False) or, with True, the complete value of
\* an entry set under the key: the one there before the set or the one the
\* set writes. It never returns from a truncated or partly written file.
C29_RaceMissOrComplete ==
    ReaderDone
    => /\ procs.reader.raised = "none"
       /\ IF procs.reader.hit
          THEN /\ procs.reader.cache_data.kind = "entry"
               /\ procs.reader.cache_data \in {procs.writer.old, procs.writer.cache_data}
               /\ procs.reader.value = procs.reader.cache_data.value
          ELSE procs.reader.value = None

C29_Witness ==
    /\ ReaderDone
    /\ procs.reader.cache_data.kind = "partial"
    /\ ~procs.reader.hit
    /\ procs.writer.pc = "done"
    /\ files[RaceFile] = procs.writer.cache_data

(***************************************************************************)
(* Claims about listings racing a creation (specification ListRaceSpec).    *)
(***************************************************************************)
\* C30: a get_collections called after create_collection has returned, in
\* any process, returns a list that holds the created collection.
C30_ListedAfterCreate ==
    \A p \in Listers :
        (procs[p].pc = "done" /\ procs[p].after_create /\ procs[p].error = "none")
        => NameListed(procs[p].list, "Inbox")

(***************************************************************************)
(* More claims about the cache (specifications Spec and StoreSpec).         *)
(***************************************************************************)
\* What get(key) returns on directory f at the present time.
GetReturns(f, key) ==
    LET g == CacheGet(f, stats, now, key) IN <<g.value, g.hit>>

\* C31: a set, a delete or a get (which removes an expired entry) of one
\* key leaves what get returns for every other key as it was before.
C31_KeysIndependent ==
    lastOp.op \in {"set", "delete", "get"}
    => \A k2 \in Keys \ {lastOp.key} :
          GetReturns(files, k2) = GetReturns(lastOp.files0, k2)

\* C32: the entry a set with ttl_seconds > 0 has just stored has
\* expires_at > created_at, whatever the clock showed at set's two reads.
C32_ExpiresAfterCreated ==
    (lastOp.op = "set" /\ lastOp.ok /\ lastOp.ttl > 0)
    => files[SafeKey(lastOp.key)].expires_at > files[SafeKey(lastOp.key)].created_at

Counters == {"hits", "misses", "sets", "expired", "errors"}

\* C33: no operation of the cache (get, set, delete, clear, cleanup_expired,
\* get_stats, reset_stats) leaves a counter lower than it found it.
C33_CountersNeverDecrease ==
    lastOp.op # "none" => \A c \in Counters : stats[c] >= lastOp.stats0[c]

\* C34: a completed get adds 1 to exactly one of hits and misses, and what
\* get_stats reports as hit_rate is hits / (hits + misses), or 0 when the sum
\* is 0, hence within [0, 1].
C34_OneOfHitsOrMisses ==
    /\ lastOp.op = "get" =>
          \/ stats.hits = lastOp.stats0.hits + 1 /\ stats.misses = lastOp.stats0.misses
          \/ stats.hits = lastOp.stats0.hits /\ stats.misses = lastOp.stats0.misses + 1
    /\ lastOp.op = "get_stats" =>
          LET rate == lastOp.report.hit_rate
          IN  /\ rate = IF stats.hits + stats.misses > 0
                        THEN <<stats.hits, stats.hits + stats.misses>> ELSE <<0, 1>>
              /\ 0 <= rate[1] /\ rate[1] <= rate[2]

(***************************************************************************)
(* More claims about the cached listings (specification ListSpec).          *)
(***************************************************************************)
ServedFromCache(call) == IsListing(call) /\ call.calls = 0 /\ Returned(call)

\* C35: a listing served from the cache leaves the entry as it found it, its
\* expiry included, and returns a list stored at most the entry's ttl
\* earlier; a listing called later than that issues the request again.
C35_BoundedStaleness ==
    /\ ServedFromCache(api.last) =>
          /\ api.last.pre.kind = "entry"
          /\ files[ListingFile(api.last)] = api.last.pre
          /\ api.last.list = api.last.pre.value
          /\ api.last.at - api.last.pre.created_at <= api.last.pre.ttl
    /\ (IsListing(api.last) /\ api.last.pre.kind = "entry"
          /\ api.last.at > api.last.pre.created_at + api.last.pre.ttl)
       => api.last.calls = 1

C35_Witness ==
    /\ ServedFromCache(api.prev) /\ api.prev.op = "list_collections"
    /\ api.prev.at = api.prev.pre.created_at + api.prev.pre.ttl
    /\ api.last.op = "list_collections" /\ api.last.at = api.prev.at + 1
    /\ api.last.pre = api.prev.pre
    /\ api.last.calls = 1

(***************************************************************************)
(* Claims about the order of the filter ids (specification OrderSpec).      *)
(***************************************************************************)
\* C36: two searches with the same collection ids, tag ids and limit against
\* the same remote links return the same set of links, in whatever order
\* each of them iterates over the ids.
C36_OrderIrrelevant ==
    (procs.first.pc = "returned" /\ procs.second.pc = "returned")
    => Range(procs.first.ret) = Range(procs.second.ret)

(***************************************************************************)
(* Claims about failed writes (specification StoreSpec).                    *)
(***************************************************************************)
\* C37: a set that returns false while a valid unexpired entry is stored
\* for its key leaves that entry as it was, so that a get of the key before
\* the entry's expiry returns its value with true; the set adds one to
\* errors and nothing to sets.
C37_FailedSetKeepsEntry ==
    (lastOp.op = "set" /\ ~lastOp.ok /\ ValidUnexpired(lastOp.pre, lastOp.at))
    => /\ files[LastFile] = lastOp.pre
       /\ now <= lastOp.pre.expires_at
             => GetReturns(files, lastOp.key) = <<lastOp.pre.value, TRUE>>
       /\ stats.errors = lastOp.stats0.errors + 1
       /\ stats.sets = lastOp.stats0.sets

(***************************************************************************)
(* More claims about a set racing a get or a cleanup (specification         *)
(* RaceSpec).                                                               *)
(***************************************************************************)
\* C38: when a get or a cleanup_expired has read an expired entry and
\* another process's set with ttl_seconds > 0 returns before the entry is
\* removed, the entry that set stored is still there once the get or the
\* cleanup has ended, and a get before its expiry returns its value.
C38_FreshEntrySurvives ==
    (/\ procs.reader.pc = "done" /\ procs.reader.overtaken
     /\ procs.writer.cache_data.ttl > 0)
    => /\ files[RaceFile] = procs.writer.cache_data
       /\ now <= procs.writer.cache_data.expires_at
             => GetReturns(files, RaceKey) = <<procs.writer.cache_data.value, TRUE>>

(***************************************************************************)
(* Claims about the search command (specification QuerySpec).               *)
(***************************************************************************)
\* C39: when the query names a tag filter every search call carries a tag
\* id, and when it names a collection filter every search call carries a
\* collection id.
C39_FiltersNeverDropped ==
    \A i \in DOMAIN search.calls :
        /\ search.tag_filters # <<>> => search.calls[i].tag # ""
        /\ search.collection_filters # <<>> => search.calls[i].collection # ""

====
